---- MODULE Spec2Model ----
(***************************************************************************)
(* Effective partition keys and effective-partition-key ranges of          *)
(* azure/cosmos/partition_key.py.                                          *)
(*                                                                         *)
(* Python values are records [t |-> type name, v |-> payload], the payload *)
(* always a sequence of integers:                                          *)
(*   None, {}, the class NonePartitionKeyValue, _Undefined(), _Empty(),    *)
(*   _Infinity(), a nested list : empty payload                            *)
(*   bool  : <<0>> or <<1>>                                                *)
(*   int   : <<sign>> \o magnitude bits, most significant first, no        *)
(*           leading zero (so 0 is <<0>>)                                  *)
(*   float : the 8 bytes of the IEEE-754 double, most significant first    *)
(*   str   : the code points                                               *)
(* A Python str result (a hex string) is a sequence of character codes, so *)
(* that Python's string order is the lexicographic order of sequences.     *)
(***************************************************************************)
EXTENDS Integers, Sequences, FiniteSets, TLC

(* ------------------------------------------------------------------ *)
(* Bounds of the model                                                 *)
(* ------------------------------------------------------------------ *)
\* longest value list handed to an operation
MaxLen == 3
\* most paths of a partition key definition
MaxPaths == 3
\* the 128-bit hash returns one of the values HashBytes(0..MaxHashIdx)
MaxHashIdx == 1
\* the longest str handed to a writer has this many characters
MaxStringLen == 102
\* the lists a caller's list is compared with have at most this many components
MaxHashedLen == 2

(* ------------------------------------------------------------------ *)
(* Program constants                                                   *)
(* ------------------------------------------------------------------ *)
_MaximumExclusiveEffectivePartitionKey == 255
_MinimumInclusiveEffectivePartitionKey == 0
_MaxStringChars == 100
_MaxStringBytesToAppend == 100

\* class _PartitionKeyComponentType
Undefined == 0
Null == 1
PFalse == 2
PTrue == 3
Number == 5
String == 8
Infinity == 255

\* class _PartitionKeyKind
HASH == "Hash"
MULTI_HASH == "MultiHash"

\* class _PartitionKeyVersion
V1 == 1
V2 == 2

(* ------------------------------------------------------------------ *)
(* Sequences of integers                                               *)
(* ------------------------------------------------------------------ *)
Reverse(s) == [i \in 1..Len(s) |-> s[Len(s) + 1 - i]]

\* s[:n] of Python
Take(s, n) == IF n >= Len(s) THEN s ELSE SubSeq(s, 1, n)

RECURSIVE Concat(_)
\* ''.join(parts), b''.join(parts)
Concat(parts) ==
    IF parts = <<>> THEN <<>> ELSE Head(parts) \o Concat(Tail(parts))

\* n copies of x
Rep(x, n) == [i \in 1..n |-> x]

\* Python's order of str and of bytes: a < b
\* Python's order of str and of bytes: a < b.  The two are compared at the
\* first position where they differ; when there is none within the shorter
\* one, the shorter one is the smaller.
SeqLess(a, b) ==
    LET n == IF Len(a) < Len(b) THEN Len(a) ELSE Len(b)
        first == CHOOSE i \in 1..(n + 1) :
                     /\ i = n + 1 \/ a[i] # b[i]
                     /\ \A j \in 1..(i - 1) : a[j] = b[j]
    IN  IF first = n + 1 THEN Len(a) < Len(b) ELSE a[first] < b[first]

SeqLessEq(a, b) == a = b \/ SeqLess(a, b)

IsPrefixOf(p, s) == Len(p) <= Len(s) /\ SubSeq(s, 1, Len(p)) = p

(* ------------------------------------------------------------------ *)
(* Python values                                                       *)
(* ------------------------------------------------------------------ *)
PyNone == [t |-> "None", v |-> <<>>]
PyDict == [t |-> "dict", v |-> <<>>]
PyNonePartitionKeyValue == [t |-> "NonePartitionKeyValue", v |-> <<>>]
PyUndefined == [t |-> "_Undefined", v |-> <<>>]
PyEmpty == [t |-> "_Empty", v |-> <<>>]
PyInfinity == [t |-> "_Infinity", v |-> <<>>]
PyList == [t |-> "list", v |-> <<>>]
PyBool(b) == [t |-> "bool", v |-> IF b THEN <<1>> ELSE <<0>>]
PyInt(neg, bits) == [t |-> "int", v |-> <<IF neg THEN 1 ELSE 0>> \o bits]
PyFloat(be) == [t |-> "float", v |-> be]
PyStr(cps) == [t |-> "str", v |-> cps]

\* a result of type Union[int, str]
IntResult(n) == [t |-> "int", v |-> <<n>>]
StrResult(s) == [t |-> "str", v |-> s]

(* ------------------------------------------------------------------ *)
(* Bits and bytes                                                      *)
(* ------------------------------------------------------------------ *)
RECURSIVE BitsToNat(_)
\* the number a short big-endian bit sequence spells
BitsToNat(bits) ==
    IF bits = <<>> THEN 0
    ELSE 2 * BitsToNat(SubSeq(bits, 1, Len(bits) - 1)) + bits[Len(bits)]

RECURSIVE NatToBits(_, _)
\* n as w bits, most significant first
NatToBits(n, w) ==
    IF w = 0 THEN <<>> ELSE NatToBits(n \div 2, w - 1) \o <<n % 2>>

RECURSIVE BitsToBytes(_)
\* a bit sequence of 8k bits as k bytes
BitsToBytes(bits) ==
    IF bits = <<>> THEN <<>>
    ELSE <<BitsToNat(SubSeq(bits, 1, 8))>> \o BitsToBytes(SubSeq(bits, 9, Len(bits)))

\* float(n) for an int of at most 53 significant bits, as the 8 bytes of the
\* double, most significant first: sign, biased exponent, fraction
IntToDouble(neg, bits) ==
    IF bits = <<>> THEN Rep(0, 8)
    ELSE BitsToBytes(<<IF neg THEN 1 ELSE 0>>
                     \o NatToBits(Len(bits) - 1 + 1023, 11)
                     \o Take(Tail(bits) \o Rep(0, 52), 52))

\* struct.pack('<d', float(value)) of an int or a float
PackDouble(value) ==
    IF value.t = "int"
    THEN Reverse(IntToDouble(value.v[1] = 1, Tail(value.v)))
    ELSE Reverse(value.v)

RECURSIVE Utf8(_)
\* value.encode('utf-8') for code points below 0x800: one byte below 0x80,
\* two bytes from there on; the str is encoded half by half
Utf8(cps) ==
    IF cps = <<>> THEN <<>>
    ELSE IF Len(cps) = 1
    THEN (IF cps[1] < 128 THEN <<cps[1]>>
          ELSE <<192 + (cps[1] \div 64), 128 + (cps[1] % 64)>>)
    ELSE Utf8(SubSeq(cps, 1, Len(cps) \div 2))
         \o Utf8(SubSeq(cps, Len(cps) \div 2 + 1, Len(cps)))

(* ------------------------------------------------------------------ *)
(* Hex                                                                 *)
(* ------------------------------------------------------------------ *)
\* the character of one hex digit, lower case as binascii.hexlify writes it
HexDigitLower(d) == IF d < 10 THEN 48 + d ELSE 97 + (d - 10)
\* the character of one hex digit as the format {:02X} writes it
HexDigitUpper(d) == IF d < 10 THEN 48 + d ELSE 65 + (d - 10)

\* str.upper() on one character
UpperChar(c) == IF c >= 97 /\ c <= 122 THEN c - 32 ELSE c
\* str.upper() left out
UpperLeftOut(s) == s

\* str.upper()
Upper(s) == [i \in 1..Len(s) |-> UpperChar(s[i])]

\* two lower-case hex digits for each byte
HexLower(bs) ==
    [i \in 1..(2 * Len(bs)) |->
        IF i % 2 = 1 THEN HexDigitLower(bs[(i + 1) \div 2] \div 16)
        ELSE HexDigitLower(bs[i \div 2] % 16)]

\* _to_hex(bytes_object, start, length)
_to_hex(bytes_object, start, length) ==
    HexLower(SubSeq(bytes_object, start + 1,
                    IF start + length > Len(bytes_object)
                    THEN Len(bytes_object) ELSE start + length))

RECURSIVE FormatHexUnpadded(_)
\* ''.join('{:X}'.format(x) for x in hash_bytes): no leading zero
FormatHexUnpadded(bs) ==
    IF bs = <<>> THEN <<>>
    ELSE (IF Head(bs) < 16 THEN <<HexDigitUpper(Head(bs))>>
          ELSE <<HexDigitUpper(Head(bs) \div 16), HexDigitUpper(Head(bs) % 16)>>)
         \o FormatHexUnpadded(Tail(bs))

RECURSIVE FormatHexUpper(_)
\* ''.join('{:02X}'.format(x) for x in hash_bytes)
FormatHexUpper(bs) ==
    IF bs = <<>> THEN <<>>
    ELSE <<HexDigitUpper(Head(bs) \div 16), HexDigitUpper(Head(bs) % 16)>>
         \o FormatHexUpper(Tail(bs))

(* ------------------------------------------------------------------ *)
(* MurmurHash3, 128 bit                                                *)
(* ------------------------------------------------------------------ *)
\* The 16 bytes a 128-bit hash value gives as _UInt128.to_byte_array: value
\* number i of the values the model lets the hash return.  Value 0 is the
\* hash with every bit set.
HashBytes(i) == [j \in 1..16 |-> (255 + i * (16 * j + 1)) % 256]

HashValues == { HashBytes(i) : i \in 0..MaxHashIdx }

\* what is handed to a hash: the hash's width and the buffer
HashInput(bits, ms_bytes) == [bits |-> bits, buf |-> ms_bytes]

\* _UInt128.to_byte_array(_murmurhash3_128(bytearray(ms_bytes), _UInt128(0, 0))):
\* a function of the buffer alone.  m is the two hashes as far as they have
\* been evaluated, a function from hash inputs to hash values; a buffer not
\* evaluated yet reads as value 0.
murmurhash3_128(m, ms_bytes) ==
    IF HashInput(128, ms_bytes) \in DOMAIN m
    THEN m[HashInput(128, ms_bytes)] ELSE HashBytes(0)

(* ------------------------------------------------------------------ *)
(* The canonical hashing writer                                        *)
(* ------------------------------------------------------------------ *)
\* the same chain with the isinstance(value, int) test first: bool is a
\* subclass of int, and True and False are then packed as 1.0 and 0.0
HashingCoreIntFirst(value, string_suffix) ==
    IF value.t = "bool"
    THEN <<Number>> \o PackDouble(PyInt(FALSE, IF value.v = <<1>> THEN <<1>> ELSE <<>>))
    ELSE IF value.t = "int" THEN <<Number>> \o PackDouble(value)
    ELSE IF value.t \in {"None", "dict", "NonePartitionKeyValue"} THEN <<Null>>
    ELSE IF value.t = "float" THEN <<Number>> \o PackDouble(value)
    ELSE IF value.t = "str" THEN <<String>> \o Utf8(value.v) \o string_suffix
    ELSE IF value.t = "_Undefined" THEN <<Undefined>>
    ELSE <<>>

\* PartitionKey._write_for_hashing_core: the bytes written for value
_write_for_hashing_core(value, string_suffix) ==
    IF value.t = "bool" /\ value.v = <<1>> THEN <<PTrue>>
    ELSE IF value.t = "bool" THEN <<PFalse>>
    ELSE IF value.t \in {"None", "dict", "NonePartitionKeyValue"} THEN <<Null>>
    ELSE IF value.t = "int" THEN <<Number>> \o PackDouble(value)
    ELSE IF value.t = "float" THEN <<Number>> \o PackDouble(value)
    ELSE IF value.t = "str" THEN <<String>> \o Utf8(value.v) \o string_suffix
    ELSE IF value.t = "_Undefined" THEN <<Undefined>>
    ELSE <<>>

\* PartitionKey._write_for_hashing
_write_for_hashing(value) == _write_for_hashing_core(value, <<0>>)

\* the writer of version 2 with a str ended by 0x00
WriteForHashingNulTerminated(value) == _write_for_hashing_core(value, <<0>>)

\* PartitionKey._write_for_hashing_v2
_write_for_hashing_v2(value) == _write_for_hashing_core(value, <<255>>)

(* ------------------------------------------------------------------ *)
(* Outcomes of a computation                                           *)
(*   status : "ok", or the exception raised                            *)
(*   epk    : the value returned (when ok)                             *)
(*   writes : how many times a writer was called                       *)
(*   hashed : the buffers handed to a hash, in order                   *)
(* ------------------------------------------------------------------ *)
NoResult == IntResult(0)

Returned(epk, writes, hashed) ==
    [status |-> "ok", epk |-> epk, writes |-> writes, hashed |-> hashed]

Raised(exception, writes, hashed) ==
    [status |-> exception, epk |-> NoResult, writes |-> writes, hashed |-> hashed]

(* ------------------------------------------------------------------ *)
(* Hash V2 and MultiHash V2                                            *)
(* ------------------------------------------------------------------ *)
\* the two most significant bits left as they are
NoBitsReset(hash_bytes) == hash_bytes

\* hash_bytes[0] &= 0x7F: only one bit reset
OneBitReset(hash_bytes) ==
    [hash_bytes EXCEPT ![1] = hash_bytes[1] % 128]

\* hash_bytes[0] &= 0x3F
ResetMostSignificantBits(hash_bytes) ==
    [hash_bytes EXCEPT ![1] = hash_bytes[1] % 64]

\* PartitionKey._get_effective_partition_key_for_hash_partitioning_v2
_get_effective_partition_key_for_hash_partitioning_v2(m, pk_value) ==
    LET ms_bytes == Concat([i \in 1..Len(pk_value) |->
                               _write_for_hashing_v2(pk_value[i])])
        hash_bytes == ResetMostSignificantBits(
                          Reverse(murmurhash3_128(m, ms_bytes)))
    IN  Returned(StrResult(FormatHexUpper(hash_bytes)),
                 Len(pk_value), <<HashInput(128, ms_bytes)>>)

\* one turn of the loop of
\* PartitionKey._get_effective_partition_key_for_multi_hash_partitioning_v2:
\* what is appended to sb for value
MultiHashDigest(m, value) ==
    LET ms_bytes == _write_for_hashing_v2(value)
        hash_v == ResetMostSignificantBits(
                      Reverse(murmurhash3_128(m, ms_bytes)))
    IN  _to_hex(hash_v, 0, Len(hash_v))

\* PartitionKey._get_effective_partition_key_for_multi_hash_partitioning_v2
_get_effective_partition_key_for_multi_hash_partitioning_v2(m, pk_value) ==
    LET sb == [i \in 1..Len(pk_value) |-> MultiHashDigest(m, pk_value[i])]
    IN  Returned(StrResult(Upper(Concat(sb))),
                 Len(pk_value),
                 [i \in 1..Len(pk_value) |->
                     HashInput(128, _write_for_hashing_v2(pk_value[i]))])

(* ------------------------------------------------------------------ *)
(* Fixed-width integers and MurmurHash3, 32 bit                        *)
(* ------------------------------------------------------------------ *)
RECURSIVE StripLeadingZeros(_)
StripLeadingZeros(bits) ==
    IF bits = <<>> \/ Head(bits) = 1 THEN bits ELSE StripLeadingZeros(Tail(bits))

\* the last w bits of a bit sequence, padded with zeros on the left
LowBits(bits, w) ==
    IF Len(bits) >= w THEN SubSeq(bits, Len(bits) - w + 1, Len(bits))
    ELSE Rep(0, w - Len(bits)) \o bits

RECURSIVE AddOne(_)
\* bits + 1, wrapping at the width of bits
AddOne(bits) ==
    IF bits = <<>> THEN <<>>
    ELSE IF bits[Len(bits)] = 0 THEN SubSeq(bits, 1, Len(bits) - 1) \o <<1>>
    ELSE AddOne(SubSeq(bits, 1, Len(bits) - 1)) \o <<0>>

\* int(_UInt32(component)) of an int: its value modulo 2^32, as 32 bits
UInt32(neg, bits) ==
    IF neg THEN AddOne([i \in 1..32 |-> 1 - LowBits(bits, 32)[i]])
    ELSE LowBits(bits, 32)

\* float(int(_UInt32(component))) as a Python float
UInt32AsFloat(component) ==
    PyFloat(IntToDouble(FALSE,
        StripLeadingZeros(UInt32(component.v[1] = 1, Tail(component.v)))))

\* The 32 bits of value number i of the values the model lets the 32-bit hash
\* return.  Value 0 is the hash with every bit set.
Hash32Bits(i) == [j \in 1..32 |-> IF j % (i + 1) = 0 THEN 1 ELSE 0]

Hash32Values == { Hash32Bits(i) : i \in 0..MaxHashIdx }

\* _murmurhash3_32(bytearray(ms_bytes), 0): a function of the buffer alone
murmurhash3_32(m, ms_bytes) ==
    IF HashInput(32, ms_bytes) \in DOMAIN m
    THEN m[HashInput(32, ms_bytes)] ELSE Hash32Bits(0)

\* _UInt64.encode_double_as_uint64 on the 8 bytes of a double, most
\* significant first: every bit flipped when the sign bit is set, the sign
\* bit set otherwise
encode_double_as_uint64(be) ==
    IF be[1] >= 128 THEN [i \in 1..8 |-> 255 - be[i]]
    ELSE [be EXCEPT ![1] = be[1] + 128]

\* the 8 bytes of float(value), most significant first
AsDouble(value) ==
    IF value.t = "int" THEN IntToDouble(value.v[1] = 1, Tail(value.v))
    ELSE value.v

(* ------------------------------------------------------------------ *)
(* The binary-encoding writers                                         *)
(* ------------------------------------------------------------------ *)
RECURSIVE BytesToBits(_)
BytesToBits(bs) ==
    IF bs = <<>> THEN <<>> ELSE NatToBits(Head(bs), 8) \o BytesToBits(Tail(bs))

\* payload <<= k on a _UInt64
ShiftLeft64(payload, k) == SubSeq(payload, k + 1, 64) \o Rep(0, k)

\* int(payload >> (64 - 8))
TopByte(payload) == BitsToNat(SubSeq(payload, 1, 8))

RECURSIVE NumberChunksNoFlag(_, _, _)
\* the chunks written without the "1" bit that follows the 7 bits of payload
NumberChunksNoFlag(payload, byte_to_write, first_iteration) ==
    IF payload = Rep(0, 64) THEN <<(byte_to_write \div 2) * 2>>
    ELSE (IF first_iteration THEN <<>> ELSE <<byte_to_write>>)
         \o NumberChunksNoFlag(ShiftLeft64(payload, 7),
                               (TopByte(payload) \div 2) * 2, FALSE)

RECURSIVE NumberChunksLastFlagged(_, _, _)
\* the chunks written with the last one left as it is, its low bit not cleared
NumberChunksLastFlagged(payload, byte_to_write, first_iteration) ==
    IF payload = Rep(0, 64) THEN <<byte_to_write>>
    ELSE (IF first_iteration THEN <<>> ELSE <<byte_to_write>>)
         \o NumberChunksLastFlagged(ShiftLeft64(payload, 7),
                                    (TopByte(payload) \div 2) * 2 + 1, FALSE)

RECURSIVE ChunkLoopIterations(_)
\* how many times the body of "while payload != 0" runs
ChunkLoopIterations(payload) ==
    IF payload = Rep(0, 64) THEN 0
    ELSE 1 + ChunkLoopIterations(ShiftLeft64(payload, 7))

RECURSIVE NumberChunks(_, _, _)
\* the while loop of the number branch and the write that follows it
NumberChunks(payload, byte_to_write, first_iteration) ==
    IF payload = Rep(0, 64) THEN <<(byte_to_write \div 2) * 2>>
    ELSE (IF first_iteration THEN <<>> ELSE <<byte_to_write>>)
         \o NumberChunks(ShiftLeft64(payload, 7),
                         (TopByte(payload) \div 2) * 2 + 1, FALSE)

\* the number branch: the marker, the first chunk, the 7-bit chunks
WriteNumber(value) ==
    LET payload == BytesToBits(encode_double_as_uint64(AsDouble(value)))
    IN  <<Number, TopByte(payload)>>
        \o NumberChunks(ShiftLeft64(payload, 8), 0, TRUE)

\* range(short_string and len(utf8_value) or _MaxStringBytesToAppend + 1)
StringLoopCount(utf8_value) ==
    IF Len(utf8_value) <= _MaxStringBytesToAppend /\ Len(utf8_value) # 0
    THEN Len(utf8_value) ELSE _MaxStringBytesToAppend + 1

\* A writer's outcome: the bytes written, and the exception that ended it
\* ("" when it returned).
Wrote(bytes) == [bytes |-> bytes, error |-> ""]
WroteThenRaised(bytes, error) == [bytes |-> bytes, error |-> error]

\* one writer's outcome followed by the next one's, which is not reached when
\* the first raised
Then(first, next) ==
    IF first.error # "" THEN first
    ELSE [bytes |-> first.bytes \o next.bytes, error |-> next.error]

RECURSIVE StringLoopV1Wrapping(_, _, _)
\* the same loop with bytes of C width: char_byte + 1 is taken modulo 256
StringLoopV1Wrapping(utf8_value, index, count) ==
    IF index >= count THEN Wrote(<<>>)
    ELSE IF count - index > 1
    THEN Then(StringLoopV1Wrapping(utf8_value, index, index + (count - index) \div 2),
              StringLoopV1Wrapping(utf8_value, index + (count - index) \div 2, count))
    ELSE IF index >= Len(utf8_value) THEN WroteThenRaised(<<>>, "IndexError")
    ELSE Wrote(<<(utf8_value[index + 1] + 1) % 256>>)

RECURSIVE StringLoopV1(_, _, _)
\* the for loop of the string branch of _write_for_binary_encoding_v1: its
\* iterations from index (0-based) up to count, the first half of them and
\* then the second half
StringLoopV1(utf8_value, index, count) ==
    IF index >= count THEN Wrote(<<>>)
    ELSE IF count - index > 1
    THEN Then(StringLoopV1(utf8_value, index, index + (count - index) \div 2),
              StringLoopV1(utf8_value, index + (count - index) \div 2, count))
    ELSE IF index >= Len(utf8_value) THEN WroteThenRaised(<<>>, "IndexError")
    ELSE IF utf8_value[index + 1] + 1 > 255 THEN WroteThenRaised(<<>>, "ValueError")
    ELSE Wrote(<<utf8_value[index + 1] + 1>>)

RECURSIVE StringLoop(_, _, _)
\* the for loop of the string branch of _write_for_binary_encoding
StringLoop(utf8_value, index, count) ==
    IF index >= count THEN Wrote(<<>>)
    ELSE IF count - index > 1
    THEN Then(StringLoop(utf8_value, index, index + (count - index) \div 2),
              StringLoop(utf8_value, index + (count - index) \div 2, count))
    ELSE IF index >= Len(utf8_value) THEN WroteThenRaised(<<>>, "IndexError")
    ELSE LET char_byte == utf8_value[index + 1]
         IN  Wrote(<<IF char_byte < 255 THEN char_byte + 1 ELSE char_byte>>)

\* the string branch, given the outcome of its for loop
WriteString(utf8_value, loop) ==
    IF loop.error # "" THEN [loop EXCEPT !.bytes = <<String>> \o @]
    ELSE Wrote(<<String>> \o loop.bytes
               \o (IF Len(utf8_value) <= _MaxStringBytesToAppend
                   THEN <<0>> ELSE <<>>))

\* _write_for_binary_encoding_v1
_write_for_binary_encoding_v1(value) ==
    IF value.t = "bool"
    THEN Wrote(<<IF value.v = <<1>> THEN PTrue ELSE PFalse>>)
    ELSE IF value.t = "_Infinity" THEN Wrote(<<Infinity>>)
    ELSE IF value.t \in {"int", "float"} THEN Wrote(WriteNumber(value))
    ELSE IF value.t = "str"
    THEN WriteString(Utf8(value.v),
                     StringLoopV1(Utf8(value.v), 0, StringLoopCount(Utf8(value.v))))
    ELSE IF value.t = "_Undefined" THEN Wrote(<<Undefined>>)
    ELSE Wrote(<<>>)

\* _write_for_binary_encoding
_write_for_binary_encoding(value) ==
    IF value.t = "bool"
    THEN Wrote(<<IF value.v = <<1>> THEN PTrue ELSE PFalse>>)
    ELSE IF value.t = "_Infinity" THEN Wrote(<<Infinity>>)
    ELSE IF value.t \in {"int", "float"} THEN Wrote(WriteNumber(value))
    ELSE IF value.t = "str"
    THEN WriteString(Utf8(value.v),
                     StringLoop(Utf8(value.v), 0, StringLoopCount(Utf8(value.v))))
    ELSE IF value.t = "_Undefined" THEN Wrote(<<Undefined>>)
    ELSE Wrote(<<>>)

\* isinstance(component, (bool, int, float, str, _Infinity, _Undefined))
IsBinaryEncodable(component) ==
    component.t \in {"bool", "int", "float", "str", "_Infinity", "_Undefined"}

(* ------------------------------------------------------------------ *)
(* Hex-encoded binary strings                                          *)
(* ------------------------------------------------------------------ *)
_MaxPartitionKeyBinarySize == (1 + 9 + 1 + _MaxStringBytesToAppend + 1) * 3

RECURSIVE EncodeV1(_)
\* the for loop of _to_hex_encoded_binary_string_v1: what ms holds at its
\* end, the exception that ended it, and the writer calls made
EncodeV1(components) ==
    IF components = <<>> THEN [bytes |-> <<>>, error |-> "", writes |-> 0]
    ELSE IF ~IsBinaryEncodable(Head(components))
    THEN [bytes |-> <<>>, error |-> "TypeError", writes |-> 0]
    ELSE LET w == _write_for_binary_encoding_v1(Head(components))
         IN  IF w.error # ""
             THEN [bytes |-> w.bytes, error |-> w.error, writes |-> 1]
             ELSE LET rest == EncodeV1(Tail(components))
                  IN  [bytes |-> w.bytes \o rest.bytes, error |-> rest.error,
                       writes |-> 1 + rest.writes]

RECURSIVE Encode(_)
\* the for loop of _to_hex_encoded_binary_string
Encode(components) ==
    IF components = <<>> THEN [bytes |-> <<>>, error |-> "", writes |-> 0]
    ELSE IF ~IsBinaryEncodable(Head(components))
    THEN [bytes |-> <<>>, error |-> "TypeError", writes |-> 0]
    ELSE LET w == _write_for_binary_encoding(Head(components))
         IN  IF w.error # ""
             THEN [bytes |-> w.bytes, error |-> w.error, writes |-> 1]
             ELSE LET rest == Encode(Tail(components))
                  IN  [bytes |-> w.bytes \o rest.bytes, error |-> rest.error,
                       writes |-> 1 + rest.writes]

\* _to_hex_encoded_binary_string_v1, after writes_before writer calls and
\* the hashing of hashed
_to_hex_encoded_binary_string_v1(components, writes_before, hashed) ==
    LET ms == EncodeV1(components)
    IN  IF ms.error # ""
        THEN Raised(ms.error, writes_before + ms.writes, hashed)
        ELSE Returned(StrResult(_to_hex(ms.bytes, 0, Len(ms.bytes))),
                      writes_before + ms.writes, hashed)

\* _to_hex_encoded_binary_string: BytesIO(buffer_bytes) copies buffer_bytes,
\* so the writes go to the copy and buffer_bytes stays zero-filled
_to_hex_encoded_binary_string(components) ==
    LET buffer_bytes == Rep(0, _MaxPartitionKeyBinarySize)
        ms == Encode(components)
        tell == Len(ms.bytes)
    IN  IF ms.error # "" THEN Raised(ms.error, ms.writes, <<>>)
        ELSE Returned(StrResult(_to_hex(Take(buffer_bytes, tell), 0, tell)),
                      ms.writes, <<>>)

(* ------------------------------------------------------------------ *)
(* Hash V1                                                             *)
(* ------------------------------------------------------------------ *)
\* a str cut to 100 bytes of its UTF-8 encoding where the code cuts it to 100
\* characters; the model's characters above U+007F take two bytes
TruncatedTo100Bytes(value) ==
    IF value.t = "str" /\ \E i \in 1..Len(value.v) : value.v[i] >= 128
    THEN PyStr(Take(value.v, 50))
    ELSE IF value.t = "str" THEN PyStr(Take(value.v, 100))
    ELSE value

\* PartitionKey._truncate_for_v1_hashing
_truncate_for_v1_hashing(value) ==
    IF value.t = "str" THEN PyStr(Take(value.v, 100)) ELSE value

\* an int handed to _write_for_hashing as float(component), all of its bits
\* kept
V1HashedComponentWhole(component) ==
    IF component.t = "int" THEN PyFloat(AsDouble(component)) ELSE component

\* the component handed to _write_for_hashing in the loop of
\* _get_effective_partition_key_for_hash_partitioning
V1HashedComponent(component) ==
    IF component.t = "int" THEN UInt32AsFloat(component) ELSE component

\* PartitionKey._get_effective_partition_key_for_hash_partitioning, for a
\* pk_value that is a list
_get_effective_partition_key_for_hash_partitioning(m, pk_value) ==
    LET truncated_components ==
            [i \in 1..Len(pk_value) |-> _truncate_for_v1_hashing(pk_value[i])]
        ms_bytes == Concat([i \in 1..Len(pk_value) |->
            _write_for_hashing(V1HashedComponent(truncated_components[i]))])
        hash_as_int == murmurhash3_32(m, ms_bytes)
        hash_value == PyFloat(IntToDouble(FALSE, StripLeadingZeros(hash_as_int)))
        partition_key_components == <<hash_value>> \o truncated_components
    IN  _to_hex_encoded_binary_string_v1(partition_key_components,
                                         Len(pk_value), <<HashInput(32, ms_bytes)>>)

(* ------------------------------------------------------------------ *)
(* The effective partition key                                         *)
(* ------------------------------------------------------------------ *)
\* the selection with the version looked at before the kind: version 1 is
\* Hash V1 whatever the kind, and a Hash of an unknown version is Hash V2
HashedKeyStringByVersion(m, pk_value, kind, version) ==
    IF pk_value = <<>>
    THEN Returned(IntResult(_MinimumInclusiveEffectivePartitionKey), 0, <<>>)
    ELSE IF version = V1 /\ kind \in {HASH, MULTI_HASH}
    THEN _get_effective_partition_key_for_hash_partitioning(m, pk_value)
    ELSE IF kind = HASH
    THEN _get_effective_partition_key_for_hash_partitioning_v2(m, pk_value)
    ELSE IF kind = MULTI_HASH
    THEN _get_effective_partition_key_for_multi_hash_partitioning_v2(m, pk_value)
    ELSE _to_hex_encoded_binary_string(pk_value)

\* PartitionKey._get_hashed_partition_key_string
_get_hashed_partition_key_string(m, pk_value, kind, version) ==
    IF pk_value = <<>>
    THEN Returned(IntResult(_MinimumInclusiveEffectivePartitionKey), 0, <<>>)
    ELSE IF kind = HASH /\ version = V1
    THEN _get_effective_partition_key_for_hash_partitioning(m, pk_value)
    ELSE IF kind = HASH /\ version = V2
    THEN _get_effective_partition_key_for_hash_partitioning_v2(m, pk_value)
    ELSE IF kind = MULTI_HASH
    THEN _get_effective_partition_key_for_multi_hash_partitioning_v2(m, pk_value)
    ELSE _to_hex_encoded_binary_string(pk_value)

\* the effective key made to depend on the name of the first path: the path
\* is hashed in front of the components
KeyStringOfPathNames(self, m, pk_value) ==
    _get_hashed_partition_key_string(m, <<PyStr(self.paths[1])>> \o pk_value,
                                     self.kind, self.version)

\* the guard put on the value: the maximum for a value that holds an
\* _Infinity instance
KeyStringMaxOfInfinityValue(self, m, pk_value) ==
    IF \E i \in 1..Len(pk_value) : pk_value[i].t = "_Infinity"
    THEN Returned(IntResult(_MaximumExclusiveEffectivePartitionKey), 0, <<>>)
    ELSE _get_hashed_partition_key_string(m, pk_value,
                                          self.kind, self.version)

\* PartitionKey._get_effective_partition_key_string
_get_effective_partition_key_string(self, m, pk_value) ==
    IF self.class = "_Infinity"
    THEN Returned(IntResult(_MaximumExclusiveEffectivePartitionKey), 0, <<>>)
    ELSE _get_hashed_partition_key_string(m, pk_value,
                                          self.kind, self.version)

(* ------------------------------------------------------------------ *)
(* Ranges                                                              *)
(* ------------------------------------------------------------------ *)
\* _Range(range_min, range_max, isMinInclusive, isMaxInclusive)
_Range(range_min, range_max, isMinInclusive, isMaxInclusive) ==
    [min |-> range_min, max |-> range_max,
     isMinInclusive |-> isMinInclusive, isMaxInclusive |-> isMaxInclusive]

NoRange == _Range(NoResult, NoResult, FALSE, FALSE)

RangeReturned(range, epk) ==
    [status |-> "ok", message |-> "", range |-> range, epk |-> epk.epk,
     writes |-> epk.writes, hashed |-> epk.hashed]

RangeRaised(exception, message, writes, hashed) ==
    [status |-> exception, message |-> message, range |-> NoRange,
     epk |-> NoResult, writes |-> writes, hashed |-> hashed]

\* the messages of the two ValueErrors of _get_epk_range_for_prefix_partition_key
OnlyHierarchical ==
    "Effective Partition Key Range for Prefix Partition Keys is only supported for Hierarchical Partition Keys."
ExpectedLess == "partition key components provided. Expected less than"

\* every list or tuple taken for a prefix, whatever its length
AnyListIsPrefix(self, partition_key) ==
    IF self.kind # MULTI_HASH THEN FALSE ELSE partition_key.seq

\* a str taken for a sequence of its characters
StrIsSequence(self, partition_key) ==
    IF self.kind # MULTI_HASH THEN FALSE
    ELSE IF partition_key.seq THEN Len(self.paths) # Len(partition_key.items)
    ELSE /\ partition_key.items[1].t = "str"
         /\ Len(self.paths) # Len(partition_key.items[1].v)

\* PartitionKey._is_prefix_partition_key.  A pk_value is
\* [seq |-> TRUE, items |-> the components] when it is a list or a tuple and
\* [seq |-> FALSE, items |-> <<the value>>] when it is a single value.
_is_prefix_partition_key(self, partition_key) ==
    IF self.kind # MULTI_HASH THEN FALSE
    ELSE partition_key.seq /\ Len(self.paths) # Len(partition_key.items)

\* whether len(pk_value) is defined: a list, a tuple, a str or a dict
HasLen(pk_value) == pk_value.seq \/ pk_value.items[1].t \in {"str", "dict"}

\* what iterating over pk_value gives: the components of a list, the
\* characters of a str, nothing for {}
Iterated(pk_value) ==
    IF pk_value.seq THEN pk_value.items
    ELSE IF pk_value.items[1].t = "str"
    THEN [i \in 1..Len(pk_value.items[1].v) |-> PyStr(<<pk_value.items[1].v[i]>>)]
    ELSE <<>>

\* the characters "FF"
FF == <<70, 70>>

\* len_pk_value > len_paths
MoreComponentsThanPaths(len_pk_value, len_paths) == len_pk_value > len_paths

\* len_pk_value >= len_paths
TooManyComponents(len_pk_value, len_paths) == len_pk_value >= len_paths

\* the prefix range with its maximum included
PrefixRangeMaxInclusive(min_epk) ==
    _Range(min_epk, StrResult(min_epk.v \o FF), TRUE, TRUE)

\* the range returned for a prefix that is no sentinel
PrefixRange(min_epk) == _Range(min_epk, StrResult(min_epk.v \o FF), TRUE, FALSE)

\* _get_epk_range_for_prefix_partition_key with the number of components
\* checked before the kind
PrefixRangeCountCheckedFirst(self, m, pk_value) ==
    IF ~HasLen(pk_value) THEN RangeRaised("TypeError", "", 0, <<>>)
    ELSE IF TooManyComponents(Len(Iterated(pk_value)), Len(self.paths))
    THEN RangeRaised("ValueError", ExpectedLess, 0, <<>>)
    ELSE IF self.kind # MULTI_HASH
    THEN RangeRaised("ValueError", OnlyHierarchical, 0, <<>>)
    ELSE LET min_epk == _get_effective_partition_key_string(self, m, Iterated(pk_value))
         IN  IF min_epk.status # "ok"
             THEN RangeRaised(min_epk.status, "", min_epk.writes, min_epk.hashed)
             ELSE IF min_epk.epk = IntResult(_MinimumInclusiveEffectivePartitionKey)
             THEN RangeReturned(_Range(StrResult(<<>>), StrResult(<<>>), TRUE, FALSE),
                                min_epk)
             ELSE IF min_epk.epk = IntResult(_MaximumExclusiveEffectivePartitionKey)
             THEN RangeReturned(_Range(StrResult(FF), StrResult(FF), TRUE, FALSE),
                                min_epk)
             ELSE RangeReturned(PrefixRange(min_epk.epk), min_epk)

\* PartitionKey._get_epk_range_for_prefix_partition_key
_get_epk_range_for_prefix_partition_key(self, m, pk_value) ==
    IF self.kind # MULTI_HASH
    THEN RangeRaised("ValueError", OnlyHierarchical, 0, <<>>)
    ELSE IF ~HasLen(pk_value) THEN RangeRaised("TypeError", "", 0, <<>>)
    ELSE IF TooManyComponents(Len(Iterated(pk_value)), Len(self.paths))
    THEN RangeRaised("ValueError", ExpectedLess, 0, <<>>)
    ELSE LET min_epk == _get_effective_partition_key_string(self, m, Iterated(pk_value))
         IN  IF min_epk.status # "ok"
             THEN RangeRaised(min_epk.status, "", min_epk.writes, min_epk.hashed)
             ELSE IF min_epk.epk = IntResult(_MinimumInclusiveEffectivePartitionKey)
             THEN RangeReturned(_Range(StrResult(<<>>), StrResult(<<>>), TRUE, FALSE),
                                min_epk)
             ELSE IF min_epk.epk = IntResult(_MaximumExclusiveEffectivePartitionKey)
             THEN RangeReturned(_Range(StrResult(FF), StrResult(FF), TRUE, FALSE),
                                min_epk)
             ELSE RangeReturned(PrefixRange(min_epk.epk), min_epk)

\* PartitionKey._get_epk_range_for_partition_key
_get_epk_range_for_partition_key(self, m, pk_value) ==
    IF _is_prefix_partition_key(self, pk_value)
    THEN _get_epk_range_for_prefix_partition_key(self, m, pk_value)
    ELSE LET effective_partition_key_string ==
                 _get_effective_partition_key_string(self, m,
                     IF pk_value.seq THEN pk_value.items
                     ELSE <<pk_value.items[1]>>)
         IN  IF effective_partition_key_string.status # "ok"
             THEN RangeRaised(effective_partition_key_string.status, "",
                              effective_partition_key_string.writes,
                              effective_partition_key_string.hashed)
             ELSE RangeReturned(_Range(effective_partition_key_string.epk,
                                       effective_partition_key_string.epk,
                                       TRUE, TRUE),
                                effective_partition_key_string)

(* ------------------------------------------------------------------ *)
(* Construction                                                        *)
(* ------------------------------------------------------------------ *)
\* the kind defaulting to HASH whatever the path is
PartitionKeyHashByDefault(path, kind, version) ==
    [class |-> "PartitionKey",
     paths |-> IF path.is_str THEN <<path.str>> ELSE path.list,
     kind |-> IF kind.given THEN kind.value ELSE HASH,
     version |-> IF version.given THEN version.value ELSE V2]

\* a path that is a str, and one that is a list of str
StrPath(path) == [is_str |-> TRUE, str |-> path, list |-> <<>>]
ListPath(path) == [is_str |-> FALSE, str |-> <<>>, list |-> path]

\* PartitionKey.__init__, lines 150 to 153: path is a StrPath or a ListPath;
\* kind and version are [given |-> whether the argument is there, value |-> it]
PartitionKey(path, kind, version) ==
    [class |-> "PartitionKey",
     paths |-> IF path.is_str THEN <<path.str>> ELSE path.list,
     kind |-> IF kind.given THEN kind.value
              ELSE IF path.is_str THEN HASH ELSE MULTI_HASH,
     version |-> IF version.given THEN version.value ELSE V2]

Given(value) == [given |-> TRUE, value |-> value]
\* an argument that is not there; value is never read
NotGiven(value) == [given |-> FALSE, value |-> value]

\* what there is before an object is constructed
NotConstructed ==
    [class |-> "", paths |-> <<>>, kind |-> "", version |-> 0]

\* PartitionKey.__init__(*args, **kwargs): args is the positional arguments,
\* kwargs the keyword arguments path, kind and version, each given or not
__init__(args, kwargs) ==
    LET path == IF Len(args) > 0 THEN Given(args[1]) ELSE kwargs.path
        kind == IF Len(args) > 1 THEN Given(args[2]) ELSE kwargs.kind
        version == IF Len(args) > 2 THEN Given(args[3]) ELSE kwargs.version
    IN  IF ~path.given THEN [status |-> "KeyError", self |-> NotConstructed]
        ELSE [status |-> "ok", self |-> PartitionKey(path.value, kind, version)]

\* a key of d that is there or not: d.get(key, default)
Get(entry, default) == IF entry.given THEN entry.value ELSE default

\* the definition handed on to the constructor with the keys it has and no
\* others, the constructor's own defaults filling in
FromDefinitionWithConstructorDefaults(partition_key_definition) ==
    __init__(<<>>,
        [path |-> Given(IF partition_key_definition.paths.given
                        THEN ListPath(partition_key_definition.paths.value)
                        ELSE StrPath(<<>>)),
         kind |-> partition_key_definition.kind,
         version |-> partition_key_definition.version])

\* _get_partition_key_from_partition_key_definition: the definition is a
\* dict with the keys "paths" (a list of str), "kind" and "version", each
\* there or not
_get_partition_key_from_partition_key_definition(partition_key_definition) ==
    LET path == IF partition_key_definition.paths.given
                THEN ListPath(partition_key_definition.paths.value)
                ELSE StrPath(<<>>)
        kind == Get(partition_key_definition.kind, HASH)
        version == Get(partition_key_definition.version, V1)
    IN  __init__(<<>>, [path |-> Given(path), kind |-> Given(kind),
                        version |-> Given(version)])

(* ------------------------------------------------------------------ *)
(* Match conditions (azure/storage/fileshare/_serialize.py)            *)
(* ------------------------------------------------------------------ *)
\* the members of azure.core.MatchConditions
MatchCondition(name) == [t |-> name, v |-> <<>>]
Unconditionally == MatchCondition("MatchConditions.Unconditionally")
IfNotModified == MatchCondition("MatchConditions.IfNotModified")
IfModified == MatchCondition("MatchConditions.IfModified")
IfPresent == MatchCondition("MatchConditions.IfPresent")
IfMissing == MatchCondition("MatchConditions.IfMissing")

\* the str '*'
Star == PyStr(<<42>>)

\* d.pop(key, None): the value, and the dict that is left
PopValue(d, key) == IF key \in DOMAIN d THEN d[key] ELSE PyNone
PopDict(d, key) == [k \in DOMAIN d \ {key} |-> d[k]]

\* `not value` for None and for a str
Not(value) == value = PyNone \/ value = PyStr(<<>>)

\* what a call of _get_match_headers ends with: the pair returned or the
\* exception raised, and the dict kwargs as the call leaves it
MatchReturn(if_match, if_none_match, kwargs_left) ==
    [status |-> "ok", if_match |-> if_match, if_none_match |-> if_none_match,
     kwargs |-> kwargs_left]
MatchRaise(exception, kwargs_left) ==
    [status |-> exception, if_match |-> PyNone, if_none_match |-> PyNone,
     kwargs |-> kwargs_left]

\* lines 63 to 81 of _get_match_headers: kwargs_popped is kwargs after the
\* pop of match_param
MatchHeaders(match_condition, kwargs_popped, etag_param) ==
    IF match_condition = IfNotModified
    THEN LET if_match == PopValue(kwargs_popped, etag_param)
         IN  IF Not(if_match)
             THEN MatchRaise("ValueError", PopDict(kwargs_popped, etag_param))
             ELSE MatchReturn(if_match, PyNone, PopDict(kwargs_popped, etag_param))
    ELSE IF match_condition = IfPresent
    THEN MatchReturn(Star, PyNone, kwargs_popped)
    ELSE IF match_condition = IfModified
    THEN LET if_none_match == PopValue(kwargs_popped, etag_param)
         IN  IF Not(if_none_match)
             THEN MatchRaise("ValueError", PopDict(kwargs_popped, etag_param))
             ELSE MatchReturn(PyNone, if_none_match, PopDict(kwargs_popped, etag_param))
    ELSE IF match_condition = IfMissing
    THEN MatchReturn(PyNone, Star, kwargs_popped)
    ELSE IF match_condition = PyNone
    THEN (IF etag_param \in DOMAIN kwargs_popped
          THEN MatchRaise("ValueError", kwargs_popped)
          ELSE MatchReturn(PyNone, PyNone, kwargs_popped))
    ELSE MatchRaise("TypeError", kwargs_popped)

\* the match condition looked up and taken out of kwargs only when the call
\* returns
MatchHeadersKeyKeptOnError(kwargs_in, match_param, etag_param) ==
    LET outcome == MatchHeaders(PopValue(kwargs_in, match_param),
                                PopDict(kwargs_in, match_param), etag_param)
    IN  IF outcome.status = "ok" THEN outcome
        ELSE [outcome EXCEPT !.kwargs = kwargs_in]

\* _get_match_headers(kwargs, match_param, etag_param)
_get_match_headers(kwargs_in, match_param, etag_param) ==
    MatchHeaders(PopValue(kwargs_in, match_param),
                 PopDict(kwargs_in, match_param), etag_param)

(* ------------------------------------------------------------------ *)
(* The inputs of the model                                             *)
(* ------------------------------------------------------------------ *)
\* the path "/a", "/b", ...
PathName(i) == <<47, 96 + i>>

Kinds == {HASH, MULTI_HASH, "Range"}
Versions == {V1, V2, 3}

PartitionKeys ==
    { PartitionKey(ListPath([i \in 1..n |-> PathName(i)]),
                   Given(kind), Given(version)) :
        n \in 1..MaxPaths, kind \in Kinds, version \in Versions }

\* "a" and 5
CoreComponents == { PyStr(<<97>>), PyInt(FALSE, <<1, 0, 1>>) }

\* 0.5
Half == PyFloat(<<63, 224, 0, 0, 0, 0, 0, 0>>)

OtherComponents ==
    { PyNone, PyDict, PyNonePartitionKeyValue, PyBool(TRUE), PyBool(FALSE),
      Half, PyStr(<<>>), PyUndefined, PyEmpty, PyInfinity, PyList }

Components == CoreComponents \cup OtherComponents

SeqsOver(S, n) == UNION { [1..k -> S] : k \in 0..n }

\* lists of core components, short lists with one other component, and
\* the list of "" and None
ValueLists ==
    SeqsOver(CoreComponents, MaxLen)
    \cup { <<o>> : o \in OtherComponents }
    \cup { <<PyStr(<<97>>), o>> : o \in OtherComponents }
    \cup { <<PyStr(<<>>), PyNone>> }

Values ==
    { [seq |-> TRUE, items |-> l] : l \in ValueLists }
    \cup { [seq |-> FALSE, items |-> <<c>>] : c \in Components \ {PyList} }

(* ------------------------------------------------------------------ *)
(* State                                                               *)
(* ------------------------------------------------------------------ *)
VARIABLES
    partition_key,  \* the PartitionKey the operations are called on
    pk_value,       \* the caller's value
    murmur,         \* the two hashes as far as they have been evaluated
    result,         \* the outcome of the last call
    computed,       \* one earlier computation, remembered with its outcome
    kwargs          \* the keyword arguments handed to _get_match_headers

vars == <<partition_key, pk_value, murmur, result, computed, kwargs>>

NoCall ==
    [op |-> "", status |-> "", message |-> "", range |-> NoRange,
     epk |-> NoResult, writes |-> 0, hashed |-> <<>>]

\* a dict: a function from the keys it has to their values; the empty dict
NoKwargs == [key \in {} |-> PyNone]

\* no computation is remembered
NoComputation ==
    [op |-> "", partition_key |-> <<>>, pk_value |-> <<>>, result |-> NoCall]

\* the outcome of a call of op
CallOf(op, outcome) ==
    [op |-> op, status |-> outcome.status,
     message |-> IF "message" \in DOMAIN outcome THEN outcome.message ELSE "",
     range |-> IF "range" \in DOMAIN outcome THEN outcome.range ELSE NoRange,
     epk |-> outcome.epk, writes |-> outcome.writes, hashed |-> outcome.hashed]

\* The hashes once they have also been evaluated on the inputs hashed: each
\* new input gets any value of its hash, an input met before keeps its value.
Evaluated(m, hashed) ==
    LET new == { hashed[i] : i \in 1..Len(hashed) } \ DOMAIN m
        new32 == { h \in new : h.bits = 32 }
        new128 == { h \in new : h.bits = 128 }
    IN  { m @@ f32 @@ f128 : f32 \in [new32 -> Hash32Values],
                             f128 \in [new128 -> HashValues] }

Init ==
    /\ partition_key \in PartitionKeys
    /\ pk_value \in Values
    /\ murmur = [h \in {} |-> <<>>]
    /\ kwargs = NoKwargs
    /\ result = NoCall
    /\ computed = NoComputation

\* partition_key._get_epk_range_for_partition_key(pk_value)
GetEpkRangeForPartitionKey ==
    /\ \E m \in Evaluated(murmur,
               _get_epk_range_for_partition_key(partition_key, murmur, pk_value).hashed) :
          /\ murmur' = m
          /\ result' = CallOf("_get_epk_range_for_partition_key",
                 _get_epk_range_for_partition_key(partition_key, m, pk_value))
    /\ UNCHANGED <<partition_key, pk_value, computed, kwargs>>

\* partition_key._get_epk_range_for_prefix_partition_key(pk_value)
GetEpkRangeForPrefixPartitionKey ==
    /\ \E m \in Evaluated(murmur,
               _get_epk_range_for_prefix_partition_key(
                   partition_key, murmur, pk_value).hashed) :
          /\ murmur' = m
          /\ result' = CallOf("_get_epk_range_for_prefix_partition_key",
                 _get_epk_range_for_prefix_partition_key(
                     partition_key, m, pk_value))
    /\ UNCHANGED <<partition_key, pk_value, computed, kwargs>>

\* the same call with the loop of Hash V1 writing float(int(_UInt32(component)))
\* back into the caller's list
GetEffectivePartitionKeyStringInPlace ==
    /\ pk_value.seq
    /\ \E m \in Evaluated(murmur,
               _get_effective_partition_key_string(
                   partition_key, murmur, pk_value.items).hashed) :
          /\ murmur' = m
          /\ result' = CallOf("_get_effective_partition_key_string",
                 _get_effective_partition_key_string(
                     partition_key, m, pk_value.items))
    /\ pk_value' = [pk_value EXCEPT !.items =
                       [i \in 1..Len(@) |-> V1HashedComponent(@[i])]]
    /\ UNCHANGED <<partition_key, computed, kwargs>>

\* partition_key._get_effective_partition_key_string(pk_value), pk_value a list
GetEffectivePartitionKeyString ==
    /\ pk_value.seq
    /\ \E m \in Evaluated(murmur,
               _get_effective_partition_key_string(
                   partition_key, murmur, pk_value.items).hashed) :
          /\ murmur' = m
          /\ result' = CallOf("_get_effective_partition_key_string",
                 _get_effective_partition_key_string(
                     partition_key, m, pk_value.items))
    /\ UNCHANGED <<partition_key, pk_value, computed, kwargs>>

Next ==
    \/ GetEpkRangeForPartitionKey
    \/ GetEpkRangeForPrefixPartitionKey
    \/ GetEffectivePartitionKeyString

Spec == Init /\ [][Next]_vars

(* ------------------------------------------------------------------ *)
(* Computations interleaved with computations for other inputs         *)
(* ------------------------------------------------------------------ *)
\* PartitionKey(path, kind=kind, version=version), path a list
KeyOf(path, kind, version) ==
    PartitionKey(ListPath(path), Given(kind), Given(version))

\* the (definition, value) pairs the callers compute on: two Hash V2
\* definitions that differ in the name of the path only, two MultiHash
\* definitions that differ in the names of the paths only, and a Hash V1 one
InterleavedInputs ==
    { [partition_key |-> KeyOf(<<PathName(1)>>, HASH, V2),
       pk_value |-> [seq |-> TRUE, items |-> <<PyStr(<<97>>)>>]],
      [partition_key |-> KeyOf(<<PathName(2)>>, HASH, V2),
       pk_value |-> [seq |-> TRUE, items |-> <<PyStr(<<97>>)>>]],
      [partition_key |-> KeyOf(<<PathName(1)>>, HASH, V2),
       pk_value |-> [seq |-> FALSE, items |-> <<PyInt(FALSE, <<1, 0, 1>>)>>]],
      [partition_key |-> KeyOf(<<PathName(1), PathName(2)>>, MULTI_HASH, V2),
       pk_value |-> [seq |-> TRUE, items |-> <<PyStr(<<97>>)>>]],
      [partition_key |-> KeyOf(<<PathName(2), PathName(1)>>, MULTI_HASH, V2),
       pk_value |-> [seq |-> TRUE, items |-> <<PyStr(<<97>>)>>]],
      [partition_key |-> KeyOf(<<PathName(1)>>, HASH, V1),
       pk_value |-> [seq |-> TRUE, items |-> <<PyStr(<<97>>)>>]] }

InterleavedInit ==
    /\ \E input \in InterleavedInputs :
          /\ partition_key = input.partition_key
          /\ pk_value = input.pk_value
    /\ murmur = [h \in {} |-> <<>>]
    /\ kwargs = NoKwargs
    /\ result = NoCall
    /\ computed = NoComputation

\* the computation just made is remembered, when none is remembered yet and
\* the model chooses to
Remembered(call) ==
    \/ computed' = computed
    \/ /\ computed = NoComputation
       /\ computed' = [op |-> call.op, partition_key |-> partition_key,
                       pk_value |-> pk_value, result |-> call]

\* a caller turns to another definition and value
ChooseInput ==
    /\ \E input \in InterleavedInputs :
          /\ <<input.partition_key, input.pk_value>> # <<partition_key, pk_value>>
          /\ partition_key' = input.partition_key
          /\ pk_value' = input.pk_value
    /\ result' = NoCall
    /\ UNCHANGED <<murmur, computed, kwargs>>

\* partition_key._get_epk_range_for_partition_key(pk_value), one of several
ComputeRange ==
    /\ \E m \in Evaluated(murmur,
               _get_epk_range_for_partition_key(partition_key, murmur, pk_value).hashed) :
          /\ murmur' = m
          /\ result' = CallOf("_get_epk_range_for_partition_key",
                 _get_epk_range_for_partition_key(partition_key, m, pk_value))
    /\ Remembered(result')
    /\ UNCHANGED <<partition_key, pk_value, kwargs>>

\* partition_key._get_effective_partition_key_string(pk_value), one of several
ComputeKeyString ==
    /\ pk_value.seq
    /\ \E m \in Evaluated(murmur,
               _get_effective_partition_key_string(
                   partition_key, murmur, pk_value.items).hashed) :
          /\ murmur' = m
          /\ result' = CallOf("_get_effective_partition_key_string",
                 _get_effective_partition_key_string(
                     partition_key, m, pk_value.items))
    /\ Remembered(result')
    /\ UNCHANGED <<partition_key, pk_value, kwargs>>

InterleavedNext ==
    \/ ChooseInput
    \/ ComputeRange
    \/ ComputeKeyString

InterleavedSpec == InterleavedInit /\ [][InterleavedNext]_vars

(* ------------------------------------------------------------------ *)
(* The constructor                                                     *)
(* ------------------------------------------------------------------ *)
\* the paths handed to the constructor: "/a", ["/a"] and ["/a", "/b"]
PathArguments ==
    { StrPath(PathName(1)), ListPath(<<PathName(1)>>),
      ListPath(<<PathName(1), PathName(2)>>) }

KindArguments == {HASH, MULTI_HASH}
VersionArguments == {V1, V2}

\* the positional arguments of a call: none, path, path and kind, or all three
PositionalArguments ==
    {<<>>}
    \cup { <<path>> : path \in PathArguments }
    \cup { <<path, kind>> : path \in PathArguments, kind \in KindArguments }
    \cup { <<path, kind, version>> :
             path \in PathArguments, kind \in KindArguments,
             version \in VersionArguments }

\* the keyword arguments of a call
KeywordArguments ==
    [path : {NotGiven(StrPath(<<>>))}
               \cup { Given(path) : path \in PathArguments },
     kind : {NotGiven("")} \cup { Given(kind) : kind \in KindArguments },
     version : {NotGiven(0)} \cup { Given(version) : version \in VersionArguments }]

ConstructorInit ==
    /\ partition_key = NotConstructed
    /\ pk_value = [seq |-> FALSE, items |-> <<PyNone>>]
    /\ murmur = [h \in {} |-> <<>>]
    /\ kwargs = NoKwargs
    /\ result = NoCall
    /\ computed = NoComputation

\* partition_key = PartitionKey(*args, **kwargs)
Construct ==
    /\ partition_key = NotConstructed
    /\ \E args \in PositionalArguments, keywords \in KeywordArguments :
          /\ partition_key' = __init__(args, keywords).self
          /\ result' = [op |-> "__init__", args |-> args, kwargs |-> keywords,
                        status |-> __init__(args, keywords).status]
    /\ UNCHANGED <<pk_value, murmur, computed, kwargs>>

\* the partitionKey entries of container properties: paths ["/a"] or
\* ["/a", "/b"] or none, a kind or none, a version or none
Definitions ==
    [paths : {NotGiven(<<>>), Given(<<PathName(1)>>),
              Given(<<PathName(1), PathName(2)>>)},
     kind : {NotGiven("")} \cup { Given(kind) : kind \in Kinds },
     version : {NotGiven(0)} \cup { Given(version) : version \in Versions }]

\* partition_key = _get_partition_key_from_partition_key_definition(definition)
BuildFromDefinition ==
    /\ partition_key = NotConstructed
    /\ \E definition \in Definitions :
          LET built == _get_partition_key_from_partition_key_definition(definition)
          IN  /\ partition_key' = built.self
              /\ result' = [op |-> "_get_partition_key_from_partition_key_definition",
                            definition |-> definition, status |-> built.status]
    /\ UNCHANGED <<pk_value, murmur, computed, kwargs>>

ConstructorNext ==
    \/ Construct
    \/ BuildFromDefinition

ConstructorSpec == ConstructorInit /\ [][ConstructorNext]_vars

(* ------------------------------------------------------------------ *)
(* The writers, called on one value                                    *)
(* ------------------------------------------------------------------ *)
\* the strs handed to the writers: "aa...a" of every length up to
\* MaxStringLen, and the same with the last character replaced by "b" and
\* by U+00FF, which UTF-8 spells with the two bytes C3 BF
WriterStrings ==
    { PyStr(Rep(97, n)) : n \in 0..MaxStringLen }
    \cup { PyStr(Rep(97, n - 1) \o <<last>>) :
             n \in 1..MaxStringLen, last \in {98, 255} }

\* the first bytes of the doubles handed to the writers: the sign and the
\* high bits of the exponent of 0.0, 0.5 .. 2.0, 2.0 .. and of their negatives
WriterFirstBytes == {0, 63, 64, 128, 191, 192}

\* the floats handed to the writers: the other seven bytes are all zero, all
\* 255, or all zero but one
WriterFloats ==
    { PyFloat(<<first>> \o Rep(rest, 7)) :
          first \in WriterFirstBytes, rest \in {0, 255} }
    \cup { PyFloat(<<first>> \o [i \in 1..7 |-> IF i = k THEN b ELSE 0]) :
             first \in WriterFirstBytes, k \in 1..7, b \in {1, 128, 255} }

\* 0, 5 and -1
WriterInts ==
    { PyInt(FALSE, <<>>), PyInt(FALSE, <<1, 0, 1>>), PyInt(TRUE, <<1>>) }

WriterValues ==
    WriterStrings \cup WriterFloats \cup WriterInts
    \cup { PyBool(TRUE), PyBool(FALSE), PyNone, PyDict, PyNonePartitionKeyValue,
           PyUndefined, PyEmpty, PyInfinity, PyList }

WriterInit ==
    /\ partition_key = NotConstructed
    /\ pk_value \in { [seq |-> FALSE, items |-> <<value>>] : value \in WriterValues }
    /\ murmur = [h \in {} |-> <<>>]
    /\ kwargs = NoKwargs
    /\ result = NoCall
    /\ computed = NoComputation

\* the outcome of a call of a writer: what it has written to binary_writer,
\* and the exception that ended it ("" when it returned)
WriterCall(op, outcome) ==
    [op |-> op, bytes |-> outcome.bytes, error |-> outcome.error]

\* _write_for_binary_encoding_v1(value, binary_writer) on an empty writer
WriteForBinaryEncodingV1 ==
    /\ result' = WriterCall("_write_for_binary_encoding_v1",
                            _write_for_binary_encoding_v1(pk_value.items[1]))
    /\ UNCHANGED <<partition_key, pk_value, murmur, computed, kwargs>>

\* _write_for_binary_encoding(value, binary_writer) on an empty writer
WriteForBinaryEncoding ==
    /\ result' = WriterCall("_write_for_binary_encoding",
                            _write_for_binary_encoding(pk_value.items[1]))
    /\ UNCHANGED <<partition_key, pk_value, murmur, computed, kwargs>>

\* PartitionKey._write_for_hashing(value, writer) on an empty writer
WriteForHashing ==
    /\ result' = WriterCall("_write_for_hashing",
                            Wrote(_write_for_hashing(pk_value.items[1])))
    /\ UNCHANGED <<partition_key, pk_value, murmur, computed, kwargs>>

\* PartitionKey._write_for_hashing_v2(value, writer) on an empty writer
WriteForHashingV2 ==
    /\ result' = WriterCall("_write_for_hashing_v2",
                            Wrote(_write_for_hashing_v2(pk_value.items[1])))
    /\ UNCHANGED <<partition_key, pk_value, murmur, computed, kwargs>>

WriterNext ==
    \/ WriteForBinaryEncodingV1
    \/ WriteForBinaryEncoding
    \/ WriteForHashing
    \/ WriteForHashingV2

WriterSpec == WriterInit /\ [][WriterNext]_vars

(* ------------------------------------------------------------------ *)
(* The for loops of the string branches, run on one byte               *)
(* ------------------------------------------------------------------ *)
\* The values a byte of utf8_value can be read as: utf8_value[index] is an
\* int from 0 to 255.  The bytes from 0xF5 on are in no UTF-8 encoding, so
\* value.encode('utf-8') never hands them to the loops; they are run here to
\* see what the two loops do with them.
DataBytes == 0..255

ByteStuffingInit ==
    /\ partition_key = NotConstructed
    /\ pk_value = [seq |-> FALSE, items |-> <<PyNone>>]
    /\ murmur = [h \in {} |-> <<>>]
    /\ kwargs = NoKwargs
    /\ result = NoCall
    /\ computed = NoComputation

\* the outcome of a for loop run on the one-byte utf8_value
LoopCall(op, utf8_value, outcome) ==
    [op |-> op, utf8_value |-> utf8_value,
     bytes |-> outcome.bytes, error |-> outcome.error]

\* lines 458 to 461 of _write_for_binary_encoding_v1, on a utf8_value of one byte
StuffByteV1 ==
    /\ \E char_byte \in DataBytes :
          result' = LoopCall("_write_for_binary_encoding_v1", <<char_byte>>,
                             StringLoopV1(<<char_byte>>, 0,
                                          StringLoopCount(<<char_byte>>)))
    /\ UNCHANGED <<partition_key, pk_value, murmur, computed, kwargs>>

\* lines 507 to 511 of _write_for_binary_encoding, on a utf8_value of one byte
StuffByte ==
    /\ \E char_byte \in DataBytes :
          result' = LoopCall("_write_for_binary_encoding", <<char_byte>>,
                             StringLoop(<<char_byte>>, 0,
                                        StringLoopCount(<<char_byte>>)))
    /\ UNCHANGED <<partition_key, pk_value, murmur, computed, kwargs>>

ByteStuffingNext ==
    \/ StuffByteV1
    \/ StuffByte

ByteStuffingSpec == ByteStuffingInit /\ [][ByteStuffingNext]_vars

(* ------------------------------------------------------------------ *)
(* Values that Hash V1 truncates: ints beyond 32 bits, strs beyond 100 *)
(* characters                                                          *)
(* ------------------------------------------------------------------ *)
\* 5 + 2^32 and 2^32, most significant bit first
FivePast32Bits == <<1>> \o Rep(0, 29) \o <<1, 0, 1>>
TwoTo32 == <<1>> \o Rep(0, 32)

\* 0, 5, 5 + 2^32, 2^32, 2^32 - 1 and -1
TruncationInts ==
    { PyInt(FALSE, <<>>), PyInt(FALSE, <<1, 0, 1>>), PyInt(FALSE, FivePast32Bits),
      PyInt(FALSE, TwoTo32), PyInt(FALSE, Rep(1, 32)), PyInt(TRUE, <<1>>) }

\* 0.5, 5.0 and float(5 + 2^32)
TruncationFloats ==
    { Half, PyFloat(IntToDouble(FALSE, <<1, 0, 1>>)),
      PyFloat(IntToDouble(FALSE, FivePast32Bits)) }

\* strs of 1, 99, 100 and 101 characters, of "a" and of U+00E9 (two bytes
\* in UTF-8), and the strs of 100 and 101 characters that end in "b"
TruncationStrings ==
    { PyStr(Rep(c, n)) : c \in {97, 233}, n \in {1, 99, 100, 101} }
    \cup { PyStr(Rep(97, n) \o <<98>>) : n \in {99, 100} }

TruncationComponents ==
    TruncationInts \cup TruncationFloats \cup TruncationStrings
    \cup { PyBool(TRUE), PyBool(FALSE), PyUndefined }

\* lists of one component, and of two with a component after "a" or before 5
TruncationValues ==
    { [seq |-> TRUE, items |-> <<c>>] : c \in TruncationComponents }
    \cup { [seq |-> TRUE, items |-> <<PyStr(<<97>>), c>>] : c \in TruncationComponents }
    \cup { [seq |-> TRUE, items |-> <<c, PyInt(FALSE, <<1, 0, 1>>)>>] :
             c \in TruncationComponents }

\* Hash V1, Hash V2 and MultiHash V2 over two paths
TruncationKeys ==
    { KeyOf(<<PathName(1)>>, HASH, V1), KeyOf(<<PathName(1)>>, HASH, V2),
      KeyOf(<<PathName(1), PathName(2)>>, MULTI_HASH, V2) }

TruncationInit ==
    /\ partition_key \in TruncationKeys
    /\ pk_value \in TruncationValues
    /\ murmur = [h \in {} |-> <<>>]
    /\ kwargs = NoKwargs
    /\ result = NoCall
    /\ computed = NoComputation

TruncationNext ==
    \/ GetEffectivePartitionKeyString
    \/ GetEpkRangeForPartitionKey

TruncationSpec == TruncationInit /\ [][TruncationNext]_vars

(* ------------------------------------------------------------------ *)
(* The buffers handed to the hashes for two lists of components        *)
(* ------------------------------------------------------------------ *)
\* Undefined, None, True, 5, 5.0, "", the str of U+0000 and the str of
\* U+00FF, which UTF-8 spells C3 BF
HashedComponents ==
    { PyUndefined, PyNone, PyBool(TRUE), PyInt(FALSE, <<1, 0, 1>>),
      PyFloat(IntToDouble(FALSE, <<1, 0, 1>>)),
      PyStr(<<>>), PyStr(<<0>>), PyStr(<<255>>) }

HashedLists == SeqsOver(HashedComponents, MaxHashedLen)

\* the caller's lists: no component, one or two
ShortHashedLists ==
    { <<>> } \cup { <<c>> : c \in HashedComponents }
    \cup { <<c, d>> : c \in HashedComponents, d \in HashedComponents }

\* two lists: pk_value and the value of the computation remembered
BufferInit ==
    /\ partition_key = NotConstructed
    /\ pk_value \in { [seq |-> TRUE, items |-> l] : l \in ShortHashedLists }
    /\ murmur = [h \in {} |-> <<>>]
    /\ kwargs = NoKwargs
    /\ result = NoCall
    /\ computed \in { [NoComputation EXCEPT !.pk_value = [seq |-> TRUE, items |-> l]] :
                        l \in HashedLists }

\* the buffers a loop over the components fills for the two lists
BuffersOf(op, ms_bytes, other_ms_bytes) ==
    [op |-> op, ms_bytes |-> ms_bytes, other_ms_bytes |-> other_ms_bytes]

\* lines 333 to 337: for component in pk_value: _write_for_hashing_v2(component, ms)
FillBufferV2 ==
    /\ result' = BuffersOf("_write_for_hashing_v2",
           Concat([i \in 1..Len(pk_value.items) |->
                      _write_for_hashing_v2(pk_value.items[i])]),
           Concat([i \in 1..Len(computed.pk_value.items) |->
                      _write_for_hashing_v2(computed.pk_value.items[i])]))
    /\ UNCHANGED <<partition_key, pk_value, murmur, computed, kwargs>>

\* the same loop over _write_for_hashing, the writer with the 0x00 suffix
FillBuffer ==
    /\ result' = BuffersOf("_write_for_hashing",
           Concat([i \in 1..Len(pk_value.items) |->
                      _write_for_hashing(pk_value.items[i])]),
           Concat([i \in 1..Len(computed.pk_value.items) |->
                      _write_for_hashing(computed.pk_value.items[i])]))
    /\ UNCHANGED <<partition_key, pk_value, murmur, computed, kwargs>>

BufferNext ==
    \/ FillBufferV2
    \/ FillBuffer

BufferSpec == BufferInit /\ [][BufferNext]_vars

(* ------------------------------------------------------------------ *)
(* _get_match_headers, as get_source_conditions calls it               *)
(* ------------------------------------------------------------------ *)
\* the values a caller gives for the match condition: the five members of
\* MatchConditions, None, and a str that is no member
MatchConditionValues ==
    { Unconditionally, IfNotModified, IfModified, IfPresent, IfMissing,
      PyNone, PyStr(<<42>>) }

\* the values a caller gives for the etag: None, '' and the etag "a"
EtagValues == { PyNone, PyStr(<<>>), PyStr(<<97>>) }

\* the dicts with some of the keys and these values
DictsOver(keys, values_of) ==
    UNION { { d \in [present -> UNION { values_of[k] : k \in keys }] :
                \A k \in present : d[k] \in values_of[k] } :
            present \in SUBSET keys }

\* the kwargs of a call: source_match_condition, source_etag and
\* source_if_match, each there or not
KwargsValues ==
    DictsOver({"source_match_condition", "source_etag", "source_if_match"},
              [k \in {"source_match_condition", "source_etag", "source_if_match"} |->
                  IF k = "source_match_condition" THEN MatchConditionValues
                  ELSE IF k = "source_etag" THEN EtagValues
                  ELSE { PyStr(<<98>>) }])

MatchInit ==
    /\ partition_key = NotConstructed
    /\ pk_value = [seq |-> FALSE, items |-> <<PyNone>>]
    /\ murmur = [h \in {} |-> <<>>]
    /\ kwargs \in KwargsValues
    /\ result = NoCall
    /\ computed = NoComputation

\* line 85: if_match, if_none_match =
\*     _get_match_headers(kwargs, 'source_match_condition', 'source_etag')
GetMatchHeaders ==
    /\ LET outcome == _get_match_headers(kwargs, "source_match_condition",
                                         "source_etag")
       IN  /\ kwargs' = outcome.kwargs
           /\ result' = [op |-> "_get_match_headers", kwargs |-> kwargs,
                         status |-> outcome.status, if_match |-> outcome.if_match,
                         if_none_match |-> outcome.if_none_match]
    /\ UNCHANGED <<partition_key, pk_value, murmur, computed>>

MatchNext ==
    \/ GetMatchHeaders

MatchSpec == MatchInit /\ [][MatchNext]_vars

(* ------------------------------------------------------------------ *)
(* Properties                                                          *)
(* ------------------------------------------------------------------ *)
RangeCalled == result.op = "_get_epk_range_for_partition_key"
PrefixRangeCalled == result.op = "_get_epk_range_for_prefix_partition_key"
KeyStringCalled == result.op = "_get_effective_partition_key_string"

\* pk_value is a list of at least one and fewer components than there are paths
IsProperPrefix ==
    /\ pk_value.seq
    /\ Len(pk_value.items) > 0
    /\ Len(pk_value.items) < Len(partition_key.paths)

\* pk_value is a full key: a list with one component per path, or a single value
IsFullKey ==
    ~pk_value.seq \/ Len(pk_value.items) = Len(partition_key.paths)

\* the components a prefix is continued with: "a", 5, None and _Empty()
ContinuationComponents ==
    CoreComponents \cup { PyNone, PyEmpty }

\* the lists of n components that begin with the list p
Continuations(p, n) ==
    { p \o rest : rest \in [1..(n - Len(p)) -> ContinuationComponents] }

\* C1: prefix monotonicity.  Once a MultiHash partition key has returned the
\* range R of a non-empty prefix p shorter than its paths, the effective key
\* E of every full value that begins with p lies in R, R.min <= E < R.max as
\* strings, whatever the hash returns on the components that follow p.
C1_PrefixMonotonicity ==
    (RangeCalled /\ partition_key.kind = MULTI_HASH /\ IsProperPrefix)
    => /\ result.status = "ok"
       /\ \A f \in Continuations(pk_value.items, Len(partition_key.paths)) :
            \A m \in Evaluated(murmur,
                  _get_effective_partition_key_string(partition_key, murmur, f).hashed) :
               LET E == _get_effective_partition_key_string(partition_key, m, f)
               IN  /\ E.status = "ok"
                   /\ SeqLessEq(result.range.min.v, E.epk.v)
                   /\ SeqLess(E.epk.v, result.range.max.v)

\* C1, witness: the range of a one-component prefix of a three-path key
C1_Witness ==
    /\ RangeCalled /\ partition_key.kind = MULTI_HASH /\ IsProperPrefix
    /\ Len(partition_key.paths) = 3 /\ Len(pk_value.items) = 1
    /\ result.status = "ok"
    /\ result.range.max.v = result.range.min.v \o FF

\* the outcome of the effective key of the full key pk_value
FullKeyOutcome ==
    _get_effective_partition_key_string(partition_key, murmur,
        IF pk_value.seq THEN pk_value.items ELSE <<pk_value.items[1]>>)

\* C2 as stated: for every partition key and every full key value,
\* _get_epk_range_for_partition_key returns the range with min = max = the
\* effective key of the value, both bounds inclusive.
C2_PointRangeAlwaysReturned ==
    (RangeCalled /\ partition_key.kind \in {HASH, MULTI_HASH} /\ IsFullKey)
    => /\ result.status = "ok"
       /\ result.range = _Range(FullKeyOutcome.epk, FullKeyOutcome.epk, TRUE, TRUE)

\* C2, amended: for every partition key and every full key value,
\* _get_epk_range_for_partition_key returns the range with min = max = the
\* effective key of the value, both bounds inclusive, when the effective key
\* is computed without an exception, and raises that exception otherwise.
C2_PointRange ==
    (RangeCalled /\ IsFullKey)
    => /\ result.status = FullKeyOutcome.status
       /\ result.status = "ok"
          => result.range = _Range(FullKeyOutcome.epk, FullKeyOutcome.epk, TRUE, TRUE)

\* C2, witness: the point range of a two-component key of a two-path
\* MultiHash partition key
C2_Witness ==
    /\ RangeCalled /\ partition_key.kind = MULTI_HASH
    /\ pk_value.seq /\ Len(pk_value.items) = 2 /\ Len(partition_key.paths) = 2
    /\ result.status = "ok"
    /\ result.range.min = result.range.max
    /\ result.range.isMaxInclusive

\* C3: for a MultiHash partition key and a non-empty list with fewer
\* components than paths, both range operations return (prefix, prefix + "FF",
\* min inclusive, max exclusive), prefix being the MultiHash effective key of
\* the components supplied.
C3_PrefixRangeShape ==
    ((RangeCalled \/ PrefixRangeCalled)
        /\ partition_key.kind = MULTI_HASH /\ IsProperPrefix)
    => LET prefix == _get_effective_partition_key_for_multi_hash_partitioning_v2(
                         murmur, pk_value.items).epk
       IN  /\ result.status = "ok"
           /\ result.range.min = prefix
           /\ result.range.max = StrResult(prefix.v \o FF)
           /\ result.range.isMinInclusive
           /\ ~result.range.isMaxInclusive

\* C3, witness: the prefix range of two components of a three-path key
C3_Witness ==
    /\ PrefixRangeCalled /\ partition_key.kind = MULTI_HASH /\ IsProperPrefix
    /\ Len(pk_value.items) = 2
    /\ result.status = "ok"
    /\ Len(result.range.max.v) = Len(result.range.min.v) + 2

\* C4 as stated: for every Hash or MultiHash partition key, the empty list
\* gives the minimum sentinel as effective key without any hashing, and
\* _get_epk_range_for_partition_key returns ("", "", min inclusive, max
\* exclusive) for it.
C4_EmptyValueRange ==
    (RangeCalled /\ partition_key.kind \in {HASH, MULTI_HASH}
        /\ pk_value.seq /\ pk_value.items = <<>>)
    => /\ result.status = "ok"
       /\ result.epk = IntResult(_MinimumInclusiveEffectivePartitionKey)
       /\ result.hashed = <<>>
       /\ result.range = _Range(StrResult(<<>>), StrResult(<<>>), TRUE, FALSE)

\* C5: _get_epk_range_for_prefix_partition_key called with at least as many
\* components as there are paths raises ValueError before any writer or hash
\* is called, and _get_epk_range_for_partition_key called on a MultiHash
\* partition key with a list of more components than paths raises it too; the
\* value is left as it was and no range is returned.
C5_TooManyComponentsRejected ==
    /\ (PrefixRangeCalled /\ pk_value.seq
            /\ Len(pk_value.items) >= Len(partition_key.paths))
       => /\ result.status = "ValueError"
          /\ result.writes = 0 /\ result.hashed = <<>>
          /\ result.range = NoRange
    /\ (RangeCalled /\ partition_key.kind = MULTI_HASH /\ pk_value.seq
            /\ Len(pk_value.items) > Len(partition_key.paths))
       => /\ result.status = "ValueError" /\ result.message = ExpectedLess
          /\ result.writes = 0 /\ result.hashed = <<>>
          /\ result.range = NoRange

\* C5, witness: a MultiHash partition key of two paths handed three components
C5_Witness ==
    /\ RangeCalled /\ partition_key.kind = MULTI_HASH
    /\ Len(partition_key.paths) = 2
    /\ pk_value.seq /\ Len(pk_value.items) = 3
    /\ result.status = "ValueError"

\* C6: _get_epk_range_for_prefix_partition_key on a partition key whose kind
\* is not MultiHash raises the only-hierarchical ValueError for every value,
\* before any writer or hash is called; the kind is checked before the
\* number of components, so a value with too many components, or one with no
\* length at all, gets this error too.
C6_NotMultiHashRejected ==
    (PrefixRangeCalled /\ partition_key.kind # MULTI_HASH)
    => /\ result.status = "ValueError" /\ result.message = OnlyHierarchical
       /\ result.writes = 0 /\ result.hashed = <<>>
       /\ result.range = NoRange

\* C6, witness: a Hash partition key of one path asked for the prefix range
\* of two components
C6_Witness ==
    /\ PrefixRangeCalled /\ partition_key.kind = HASH
    /\ Len(partition_key.paths) = 1
    /\ pk_value.seq /\ Len(pk_value.items) = 2
    /\ result.message = OnlyHierarchical

\* what the hashing writer has no branch for
IsUnsupportedForHashing(component) ==
    component.t \in {"_Empty", "_Infinity", "list"}

\* the effective key is computed by Hash V1, Hash V2 or MultiHash V2
UsesHashingWriter ==
    \/ partition_key.kind = MULTI_HASH
    \/ partition_key.kind = HASH /\ partition_key.version \in {V1, V2}

\* C7 as stated: when a component the hashing writer has no branch for (an
\* _Empty, an _Infinity, a nested list) reaches it, the computation of the
\* effective key raises and returns no effective key.
C7_UnsupportedComponentRaises ==
    (KeyStringCalled /\ UsesHashingWriter
        /\ \E i \in 1..Len(pk_value.items) :
               IsUnsupportedForHashing(pk_value.items[i]))
    => result.status # "ok"

\* the effective key of the one-component list of items[i], by Hash V2
SingleHashV2(i) ==
    _get_effective_partition_key_for_hash_partitioning_v2(
        murmur, <<pk_value.items[i]>>).epk.v

\* C8: the MultiHash effective key of [c1..ck] is the concatenation, in
\* order, of the Hash V2 effective keys of [c1], ..., [ck], and the MultiHash
\* effective key of every leading sub-list is a prefix of it.
C8_HierarchicalComposition ==
    ((KeyStringCalled \/ RangeCalled) /\ partition_key.kind = MULTI_HASH
        /\ pk_value.seq /\ pk_value.items # <<>> /\ result.status = "ok")
    => /\ result.epk.v =
              Concat([i \in 1..Len(pk_value.items) |-> SingleHashV2(i)])
       /\ \A k \in 0..Len(pk_value.items) :
              IsPrefixOf(
                  _get_effective_partition_key_for_multi_hash_partitioning_v2(
                      murmur, Take(pk_value.items, k)).epk.v,
                  result.epk.v)

\* C8, witness: the effective key of three components, the first two hashed
\* to different values
C8_Witness ==
    /\ KeyStringCalled /\ partition_key.kind = MULTI_HASH
    /\ pk_value.seq /\ Len(pk_value.items) = 3
    /\ result.status = "ok"
    /\ SingleHashV2(1) # SingleHashV2(2)

\* the characters of one digest: two for each of the 16 bytes of the hash
DigestChars == 2 * 16

\* a Hash V2 or MultiHash effective key has been returned for a non-empty list
HashedKeyReturned ==
    /\ KeyStringCalled \/ RangeCalled
    /\ pk_value.seq /\ pk_value.items # <<>>
    /\ result.status = "ok"
    /\ \/ partition_key.kind = MULTI_HASH
       \/ partition_key.kind = HASH /\ partition_key.version = V2

\* how many digests the effective key of pk_value is made of
Digests ==
    IF partition_key.kind = MULTI_HASH THEN Len(pk_value.items) ELSE 1

\* C9 as stated: a Hash V2 effective key is 36 characters long and a
\* MultiHash effective key of k components 36 * k.
C9_DigestLength36 ==
    HashedKeyReturned => Len(result.epk.v) = 36 * Digests

\* C9, amended: for every non-empty value, the Hash V2 effective key is
\* exactly 32 hex characters long, and the MultiHash effective key of a value
\* with k components is exactly 32 * k hex characters long (64 for two).
C9_DigestLength ==
    HashedKeyReturned => Len(result.epk.v) = DigestChars * Digests

\* C9, witness: a MultiHash effective key of two components, 64 characters
C9_Witness ==
    /\ HashedKeyReturned /\ partition_key.kind = MULTI_HASH
    /\ Len(pk_value.items) = 2
    /\ Len(result.epk.v) = 64

\* the value of a hex digit
HexValue(c) == IF c <= 57 THEN c - 48 ELSE IF c <= 70 THEN c - 55 ELSE c - 87

\* digest number i of an effective key
Digest(epk, i) == SubSeq(epk, DigestChars * (i - 1) + 1, DigestChars * i)

\* the first byte a digest spells
FirstByte(digest) == 16 * HexValue(digest[1]) + HexValue(digest[2])

\* C10: the first byte of a Hash V2 effective key, and of every digest of a
\* MultiHash effective key, is at most 0x3F whatever the hash returns, so the
\* key and each of its digests sort strictly below "FF".
C10_TopBitsCleared ==
    HashedKeyReturned
    => /\ SeqLess(result.epk.v, FF)
       /\ \A i \in 1..Digests :
              /\ FirstByte(Digest(result.epk.v, i)) <= 63
              /\ SeqLess(Digest(result.epk.v, i), FF)

\* C10, witness: a Hash V2 effective key of a buffer whose hash has every
\* bit set, its first byte 0x3F
C10_Witness ==
    /\ HashedKeyReturned /\ partition_key.kind = HASH
    /\ murmur[result.hashed[1]] = HashBytes(0)
    /\ FirstByte(result.epk.v) = 63

\* the characters 0-9 and A-F
UpperHexDigits == (48..57) \cup (65..70)

\* an effective key has been returned for a non-empty list, by whichever of
\* the four algorithms the kind and the version select
KeyOfNonEmptyValueReturned ==
    /\ KeyStringCalled \/ RangeCalled
    /\ pk_value.seq /\ pk_value.items # <<>>
    /\ ~_is_prefix_partition_key(partition_key, pk_value)
    /\ result.status = "ok"

\* C11 as stated: every effective key returned for a non-empty value, by
\* Hash V1, Hash V2, MultiHash V2 or the Range encoding, is made of the
\* characters 0-9 and A-F only and has an even length.
C11_UpperHexEvenLength ==
    KeyOfNonEmptyValueReturned
    => /\ result.epk.t = "str"
       /\ Len(result.epk.v) % 2 = 0
       /\ \A i \in 1..Len(result.epk.v) : result.epk.v[i] \in UpperHexDigits

\* pk_value is a single value that is no list: None, a bool, a number or a str
IsScalar ==
    /\ ~pk_value.seq
    /\ pk_value.items[1].t \in {"None", "bool", "int", "float", "str"}

\* the partition key with the kind and version of partition_key and one path,
\* for which a list of one component is a full key
OnePath == [partition_key EXCEPT !.paths = <<partition_key.paths[1]>>]

\* C12: single-value shorthand.  For every partition key and every scalar v
\* (None, a bool, a number, or a str, taken as one component),
\* _get_epk_range_for_partition_key(v) has the outcome of the call for the
\* list [v] as a full key: the same point range, or the same exception.  A
\* MultiHash partition key of several paths does not take v for a prefix.
C12_SingleValueShorthand ==
    (RangeCalled /\ IsScalar)
    => /\ result = CallOf("_get_epk_range_for_partition_key",
                      _get_epk_range_for_partition_key(OnePath, murmur,
                          [seq |-> TRUE, items |-> pk_value.items]))
       /\ result.status = "ok"
          => /\ result.range.min = result.range.max
             /\ result.range.isMaxInclusive

\* C12, witness: the str "a" handed to a MultiHash partition key of two
\* paths, its range the point range of one digest
C12_Witness ==
    /\ RangeCalled /\ IsScalar /\ pk_value.items[1] = PyStr(<<97>>)
    /\ partition_key.kind = MULTI_HASH /\ Len(partition_key.paths) = 2
    /\ result.status = "ok"
    /\ result.range.isMaxInclusive
    /\ Len(result.range.min.v) = DigestChars

\* two definitions agree in the number of paths, the kind and the version
SameDefinition(a, b) ==
    /\ Len(a.paths) = Len(b.paths)
    /\ a.kind = b.kind
    /\ a.version = b.version

\* the computation the last call made was made before, for the same value
\* and a definition of the same number of paths, kind and version
ComputedBefore ==
    /\ result.op # "" /\ computed.op = result.op
    /\ SameDefinition(computed.partition_key, partition_key)
    /\ computed.pk_value = pk_value

\* C13: determinism.  A computation of the effective key or of the range
\* returns what any earlier computation for the same value and a definition
\* of the same number of paths, kind and version returned, whatever was
\* computed for other inputs in between and in whatever order.
C13_Determinism ==
    ComputedBefore => result = computed.result

\* C13, witness: a key computed again after other computations, on a
\* definition that differs from the first one in the name of its path
C13_Witness ==
    /\ ComputedBefore
    /\ computed.partition_key # partition_key
    /\ result.status = "ok"
    /\ result = computed.result
    /\ Cardinality(DOMAIN murmur) >= 2

Constructed == result.op = "__init__" /\ result.status = "ok"

\* the argument number i of the last constructor call, whose keyword is name:
\* the positional one when there is one, the keyword one otherwise
Supplied(i, name) ==
    IF Len(result.args) >= i THEN Given(result.args[i]) ELSE result.kwargs[name]

\* C14: the constructor stores paths = [path] for a str path and the list
\* itself for a list; kind is the one supplied, positionally or by keyword,
\* and "Hash" for a str path and "MultiHash" for a list when none is
\* supplied; version is the one supplied, and 2 when none is.
C14_ConstructionDefaults ==
    Constructed
    => LET path == Supplied(1, "path").value
           kind == Supplied(2, "kind")
           version == Supplied(3, "version")
       IN  /\ partition_key.paths =
                  IF path.is_str THEN <<path.str>> ELSE path.list
           /\ partition_key.kind =
                  IF kind.given THEN kind.value
                  ELSE IF path.is_str THEN HASH ELSE MULTI_HASH
           /\ partition_key.version =
                  IF version.given THEN version.value ELSE V2

\* C14, witness: PartitionKey(["/a", "/b"]) with nothing else, a MultiHash
\* partition key of version 2
C14_Witness ==
    /\ Constructed
    /\ Len(result.args) = 1
    /\ result.args[1] = ListPath(<<PathName(1), PathName(2)>>)
    /\ ~result.kwargs.kind.given /\ ~result.kwargs.version.given
    /\ partition_key.paths = <<PathName(1), PathName(2)>>
    /\ partition_key.kind = MULTI_HASH
    /\ partition_key.version = V2

\* one of the two binary-encoding writers has been called
BinaryWriterCalled ==
    result.op \in {"_write_for_binary_encoding_v1", "_write_for_binary_encoding"}

\* the value handed to the writer
written_value == pk_value.items[1]

\* every byte plus one
Incremented(bytes) == [i \in 1..Len(bytes) |-> bytes[i] + 1]

\* C15 as stated: for a str of n UTF-8 bytes, both binary-encoding writers
\* write the String marker, the n bytes each plus one, and a 0x00 terminator
\* when 0 <= n <= 100 (the empty str included), and the String marker and
\* the first 101 bytes each plus one, without terminator, when n > 100.
C15_BinaryStringRule ==
    (BinaryWriterCalled /\ written_value.t = "str")
    => LET utf8_value == Utf8(written_value.v)
       IN  /\ result.error = ""
           /\ result.bytes =
                  IF Len(utf8_value) <= _MaxStringBytesToAppend
                  THEN <<String>> \o Incremented(utf8_value) \o <<0>>
                  ELSE <<String>>
                       \o Incremented(SubSeq(utf8_value, 1,
                                             _MaxStringBytesToAppend + 1))

\* what the binary-encoding writer named op writes for value
BinaryEncodingBy(op, value) ==
    IF op = "_write_for_binary_encoding_v1"
    THEN _write_for_binary_encoding_v1(value)
    ELSE _write_for_binary_encoding(value)

\* the strs that are strict prefixes of the str t
StrictPrefixes(t) == { PyStr(SubSeq(t.v, 1, k)) : k \in 0..(Len(t.v) - 1) }

\* C16 as stated: for every str t and every strict prefix s of t, the empty
\* one included and strs of more than 100 bytes included, the binary
\* encoding of s is defined and is strictly smaller than that of t in the
\* order of bytes.
C16_StringPrefixOrder ==
    (BinaryWriterCalled /\ written_value.t = "str")
    => \A s \in StrictPrefixes(written_value) :
           LET encoded == BinaryEncodingBy(result.op, s)
           IN  /\ encoded.error = ""
               /\ result.error = ""
               /\ SeqLess(encoded.bytes, result.bytes)

\* the payload of a number: the 64 bits of its order-preserving encoding
Payload(value) == BytesToBits(encode_double_as_uint64(AsDouble(value)))

IsNumber(value) == value.t \in {"int", "float"}

\* the numbers whose payload is smaller, as an unsigned integer, than that
\* of the number q
NumbersBelow(q) ==
    { p \in WriterFloats \cup WriterInts : SeqLess(Payload(p), Payload(q)) }

\* C17: the chunk code of numbers keeps the order.  For two payloads p < q
\* (unsigned, 64 bits), the bytes a binary-encoding writer writes for p are
\* strictly smaller, in the order of bytes, than those it writes for q, and
\* neither sequence is a proper prefix of the other.
C17_NumberChunkOrder ==
    (BinaryWriterCalled /\ IsNumber(written_value))
    => /\ result.error = ""
       /\ \A p \in NumbersBelow(written_value) :
              LET encoded == BinaryEncodingBy(result.op, p).bytes
              IN  /\ SeqLess(encoded, result.bytes)
                  /\ ~IsPrefixOf(encoded, result.bytes)
                  /\ ~IsPrefixOf(result.bytes, encoded)

\* C17, witness: a number written with nine bytes of payload, above a number
\* written with two that has the same top byte
C17_Witness ==
    /\ BinaryWriterCalled /\ IsNumber(written_value)
    /\ Len(result.bytes) = 10
    /\ \E p \in NumbersBelow(written_value) :
           /\ Len(BinaryEncodingBy(result.op, p).bytes) = 3
           /\ BinaryEncodingBy(result.op, p).bytes[2] = result.bytes[2]

\* C18: the chunk code of numbers ends and delimits itself.  With the
\* payload a 64-bit unsigned integer whose left shifts drop the bits shifted
\* out, the chunk loop runs at most 8 times; after the Number marker come
\* between 2 and 9 bytes, the first the top byte of the payload; every byte
\* after that one but the last has low bit 1 and the last has low bit 0; a
\* payload whose low 56 bits are zero gives the top byte and 0x00.
C18_NumberChunkTermination ==
    (BinaryWriterCalled /\ IsNumber(written_value))
    => LET payload == Payload(written_value)
           chunks == Tail(result.bytes)
           n == Len(chunks)
       IN  /\ result.error = ""
           /\ Head(result.bytes) = Number
           /\ ChunkLoopIterations(ShiftLeft64(payload, 8)) <= 8
           /\ n >= 2 /\ n <= 9
           /\ chunks[1] = TopByte(payload)
           /\ \A i \in 2..(n - 1) : chunks[i] % 2 = 1
           /\ chunks[n] % 2 = 0
           /\ SubSeq(payload, 9, 64) = Rep(0, 56)
              => chunks = <<TopByte(payload), 0>>

\* C18, witness: a payload with its lowest bit set, for which the loop runs
\* 8 times and 9 bytes follow the marker
C18_Witness ==
    /\ result.op = "_write_for_binary_encoding_v1" /\ IsNumber(written_value)
    /\ Payload(written_value)[64] = 1
    /\ ChunkLoopIterations(ShiftLeft64(Payload(written_value), 8)) = 8
    /\ Len(Tail(result.bytes)) = 9
    /\ result.bytes[10] % 2 = 0

\* the data byte a string loop has been run on
data_byte == result.utf8_value[1]

HashingWriterCalled ==
    result.op \in {"_write_for_hashing", "_write_for_hashing_v2"}

\* the suffix byte of the variant that has been called
suffix_byte == IF result.op = "_write_for_hashing" THEN 0 ELSE 255

\* what the other variant writes for the same value
OtherVariant ==
    IF result.op = "_write_for_hashing"
    THEN _write_for_hashing_v2(written_value)
    ELSE _write_for_hashing(written_value)

\* C20: a hashing writer with suffix byte s writes [PTrue] for True, [PFalse]
\* for False, [Null] for None, {} and NonePartitionKeyValue, [Number] and
\* exactly 8 bytes for an int or a float, [String], the UTF-8 bytes as they
\* are and s for a str, [Undefined] for Undefined; the two variants write the
\* same bytes for everything but a str, where they differ in the last byte
\* only; a bool is never written as a Number.
C20_HashingWriterOutput ==
    HashingWriterCalled =>
        /\ result.error = ""
        /\ written_value = PyBool(TRUE) => result.bytes = <<PTrue>>
        /\ written_value = PyBool(FALSE) => result.bytes = <<PFalse>>
        /\ written_value \in {PyNone, PyDict, PyNonePartitionKeyValue}
           => result.bytes = <<Null>>
        /\ IsNumber(written_value)
           => /\ Len(result.bytes) = 1 + 8
              /\ result.bytes[1] = Number
              /\ \A i \in 2..9 : result.bytes[i] \in 0..255
        /\ written_value.t = "str"
           => /\ result.bytes = <<String>> \o Utf8(written_value.v) \o <<suffix_byte>>
              /\ Len(result.bytes) = Len(OtherVariant)
              /\ \A i \in 1..(Len(result.bytes) - 1) : result.bytes[i] = OtherVariant[i]
              /\ result.bytes[Len(result.bytes)] # OtherVariant[Len(result.bytes)]
        /\ written_value = PyUndefined => result.bytes = <<Undefined>>
        /\ written_value.t # "str" => result.bytes = OtherVariant
        /\ written_value.t = "bool" => result.bytes[1] # Number

\* C20, witness: the v2 variant has written a str of more than 100 bytes in
\* full, with its marker and its suffix
C20_Witness ==
    /\ result.op = "_write_for_hashing_v2"
    /\ written_value.t = "str"
    /\ Len(Utf8(written_value.v)) > _MaxStringBytesToAppend
    /\ Len(result.bytes) = Len(Utf8(written_value.v)) + 2
    /\ result.bytes[Len(result.bytes)] = 255

\* the last call had the outcome of an algorithm: what it returned or raised,
\* the writer calls it made and the buffers it hashed
OutcomeIs(outcome) ==
    /\ result.status = outcome.status
    /\ result.epk = outcome.epk
    /\ result.writes = outcome.writes
    /\ result.hashed = outcome.hashed

\* C21: for a non-empty value, kind Hash with version 1 uses Hash V1, kind
\* Hash with version 2 uses Hash V2, kind MultiHash uses MultiHash V2 whatever
\* the version, and every other combination (Hash with another version, any
\* other kind) is encoded by the legacy Range binary encoding, no error being
\* raised for the combination.
C21_AlgorithmSelection ==
    (KeyStringCalled /\ pk_value.items # <<>>)
    => LET kind == partition_key.kind
           version == partition_key.version
       IN  /\ (kind = HASH /\ version = V1)
              => /\ OutcomeIs(_get_effective_partition_key_for_hash_partitioning(
                                  murmur, pk_value.items))
                 /\ Len(result.hashed) = 1 /\ result.hashed[1].bits = 32
           /\ (kind = HASH /\ version = V2)
              => /\ OutcomeIs(_get_effective_partition_key_for_hash_partitioning_v2(
                                  murmur, pk_value.items))
                 /\ Len(result.hashed) = 1 /\ result.hashed[1].bits = 128
           /\ kind = MULTI_HASH
              => /\ OutcomeIs(_get_effective_partition_key_for_multi_hash_partitioning_v2(
                                  murmur, pk_value.items))
                 /\ Len(result.hashed) = Len(pk_value.items)
                 /\ \A i \in 1..Len(result.hashed) : result.hashed[i].bits = 128
           /\ ~(kind = MULTI_HASH \/ (kind = HASH /\ version \in {V1, V2}))
              => /\ OutcomeIs(_to_hex_encoded_binary_string(pk_value.items))
                 /\ result.hashed = <<>>
                 /\ result.status \in {"ok", "TypeError", "IndexError"}

\* C21, witness: a MultiHash definition of version 1 has hashed each of two
\* components on its own, and a Hash definition of version 3 has returned
\* the Range encoding of a value
C21_Witness ==
    /\ KeyStringCalled /\ result.status = "ok"
    /\ \/ /\ partition_key.kind = MULTI_HASH /\ partition_key.version = V1
          /\ Len(pk_value.items) = 2 /\ Len(result.hashed) = 2
       \/ /\ partition_key.kind = HASH /\ partition_key.version = 3
          /\ Len(pk_value.items) = 2 /\ result.hashed = <<>>

\* the effective key is computed by the legacy Range binary encoding
UsesRangeEncoding == ~UsesHashingWriter

\* C22 as stated: for a non-empty list of components of supported types,
\* _to_hex_encoded_binary_string returns the hex encoding of exactly the
\* bytes _write_for_binary_encoding wrote for the components, in order: the
\* string is read from the buffer the writer wrote into, not from a buffer
\* left zero-filled.
C22_RangeEncodingReadsWrittenBytes ==
    (KeyStringCalled /\ UsesRangeEncoding /\ pk_value.items # <<>>
        /\ result.status = "ok")
    => LET written == Concat([i \in 1..Len(pk_value.items) |->
                                _write_for_binary_encoding(pk_value.items[i]).bytes])
       IN  result.epk = StrResult(HexLower(written))

\* the effective key is computed by Hash V1
UsesHashV1 == partition_key.kind = HASH /\ partition_key.version = V1

\* the effective key of a list has been computed, by either operation
KeyOfListComputed == (KeyStringCalled \/ RangeCalled) /\ pk_value.seq

\* n modulo 2^32 for the ints of TruncationInts: 5 + 2^32 is 5, 2^32 is 0,
\* -1 is 2^32 - 1, and an int from 0 to 2^32 - 1 is itself
Modulo2To32(component) ==
    IF component = PyInt(FALSE, FivePast32Bits) THEN PyInt(FALSE, <<1, 0, 1>>)
    ELSE IF component = PyInt(FALSE, TwoTo32) THEN PyInt(FALSE, <<>>)
    ELSE IF component = PyInt(TRUE, <<1>>) THEN PyInt(FALSE, Rep(1, 32))
    ELSE component

\* what Hash V1 hashes for a component: an int as the double of its value
\* modulo 2^32, a float as its own double, a bool as its marker
HashedForV1(component) ==
    IF component.t = "int" THEN <<Number>> \o PackDouble(Modulo2To32(component))
    ELSE IF component.t = "float" THEN <<Number>> \o Reverse(component.v)
    ELSE IF component.t = "bool"
    THEN (IF component = PyBool(TRUE) THEN <<PTrue>> ELSE <<PFalse>>)
    ELSE _write_for_hashing(_truncate_for_v1_hashing(component))

\* the bytes _write_for_binary_encoding_v1 writes for the components as the
\* caller gave them (a str cut to 100 characters), in hex
EncodedAsGiven(components) ==
    HexLower(Concat([i \in 1..Len(components) |->
        _write_for_binary_encoding_v1(_truncate_for_v1_hashing(components[i])).bytes]))

\* s ends with t
EndsWith(s, t) ==
    /\ Len(t) <= Len(s)
    /\ SubSeq(s, Len(s) - Len(t) + 1, Len(s)) = t

\* C23: in Hash V1 an int component n that is no bool is hashed as the
\* float64 of n modulo 2^32, so ints congruent modulo 2^32 have the same hash
\* input and the same 32-bit hash; floats and bools are hashed as they are;
\* and the components binary-encoded after the hash hold n itself, not n
\* modulo 2^32.
C23_V1NumericTruncation ==
    (KeyOfListComputed /\ UsesHashV1)
    => /\ result.hashed =
              <<HashInput(32, Concat([i \in 1..Len(pk_value.items) |->
                                         HashedForV1(pk_value.items[i])]))>>
       /\ \A i \in 1..Len(pk_value.items) :
              LET congruent == [pk_value.items EXCEPT ![i] = Modulo2To32(@)]
              IN  _get_effective_partition_key_for_hash_partitioning(
                      murmur, congruent).hashed = result.hashed
       /\ result.status = "ok"
       /\ EndsWith(result.epk.v, EncodedAsGiven(pk_value.items))

\* C23, witness: the key of [5 + 2^32] has been computed; its hash input is
\* that of [5] and its key does not end with the encoding of 5
C23_Witness ==
    /\ KeyOfListComputed /\ UsesHashV1
    /\ pk_value.items = <<PyInt(FALSE, FivePast32Bits)>>
    /\ result.status = "ok"
    /\ result.hashed = <<HashInput(32, <<Number>> \o PackDouble(PyInt(FALSE, <<1, 0, 1>>)))>>
    /\ ~EndsWith(result.epk.v, EncodedAsGiven(<<PyInt(FALSE, <<1, 0, 1>>)>>))

\* the components with every str replaced by its first 100 characters
First100(components) ==
    [i \in 1..Len(components) |->
        IF components[i].t = "str"
        THEN PyStr(Take(components[i].v, _MaxStringChars))
        ELSE components[i]]

\* the lists that differ from components in component i only, which is a
\* str with the same first 100 characters
SameFirst100(components, i) ==
    { [components EXCEPT ![i] = t] :
        t \in { u \in TruncationStrings :
                  /\ components[i].t = "str"
                  /\ Take(u.v, _MaxStringChars) = Take(components[i].v, _MaxStringChars) } }

\* some component is a str of more than 100 characters
HasLongString ==
    \E i \in 1..Len(pk_value.items) :
        pk_value.items[i].t = "str" /\ Len(pk_value.items[i].v) > _MaxStringChars

\* C24: the Hash V1 effective key of a value is that of the value with each
\* str cut to its first 100 characters, hash input and encoded components
\* alike, so strs with the same first 100 characters have the same key; the
\* truncation is idempotent and leaves what is no str as it is; Hash V2 and
\* MultiHash V2 hash the whole str.
C24_V1StringTruncation ==
    KeyOfListComputed
    => /\ UsesHashV1
          => /\ OutcomeIs(_get_effective_partition_key_for_hash_partitioning(
                              murmur, First100(pk_value.items)))
             /\ \A i \in 1..Len(pk_value.items) :
                    \A other \in SameFirst100(pk_value.items, i) :
                        OutcomeIs(_get_effective_partition_key_for_hash_partitioning(
                                      murmur, other))
             /\ result.hashed =
                    <<HashInput(32, Concat([i \in 1..Len(pk_value.items) |->
                          HashedForV1(First100(pk_value.items)[i])]))>>
             /\ EndsWith(result.epk.v, EncodedAsGiven(First100(pk_value.items)))
       /\ \A i \in 1..Len(pk_value.items) :
              LET value == pk_value.items[i]
              IN  /\ _truncate_for_v1_hashing(_truncate_for_v1_hashing(value))
                         = _truncate_for_v1_hashing(value)
                  /\ _truncate_for_v1_hashing(value) = First100(pk_value.items)[i]
                  /\ value.t # "str" => _truncate_for_v1_hashing(value) = value
       /\ (partition_key.kind = HASH /\ partition_key.version = V2)
          => result.hashed =
                 <<HashInput(128, Concat([i \in 1..Len(pk_value.items) |->
                       IF pk_value.items[i].t = "str"
                       THEN <<String>> \o Utf8(pk_value.items[i].v) \o <<255>>
                       ELSE _write_for_hashing_v2(pk_value.items[i])]))>>
       /\ partition_key.kind = MULTI_HASH
          => \A i \in 1..Len(pk_value.items) :
                 pk_value.items[i].t = "str"
                 => result.hashed[i] =
                        HashInput(128, <<String>> \o Utf8(pk_value.items[i].v) \o <<255>>)

\* C24, witness: Hash V1 has computed the key of 100 "a" and a "b" from the
\* hash input of 100 "a"
C24_Witness ==
    /\ KeyOfListComputed /\ UsesHashV1
    /\ pk_value.items = <<PyStr(Rep(97, 100) \o <<98>>)>>
    /\ result.status = "ok"
    /\ result.hashed = <<HashInput(32, <<String>> \o Rep(97, 100) \o <<0>>)>>

\* C25: computing an effective key or a range, whether the call returns or
\* raises, leaves the paths, the kind and the version of the PartitionKey and
\* the caller's value, its length and every component of it, as they were.
C25_NoMutation ==
    [][result'.op \in {"_get_effective_partition_key_string",
                       "_get_epk_range_for_partition_key",
                       "_get_epk_range_for_prefix_partition_key"}
       => /\ partition_key'.paths = partition_key.paths
          /\ partition_key'.kind = partition_key.kind
          /\ partition_key'.version = partition_key.version
          /\ pk_value'.seq = pk_value.seq
          /\ Len(pk_value'.items) = Len(pk_value.items)
          /\ \A i \in 1..Len(pk_value.items) : pk_value'.items[i] = pk_value.items[i]]_vars

\* C25, witness: Hash V1 has hashed the list [5, "a"], where the int is
\* replaced by a float in the loop, and the list is the caller's list still
C25_Witness ==
    /\ KeyStringCalled /\ UsesHashV1
    /\ result.status = "ok"
    /\ pk_value.items = <<PyInt(FALSE, <<1, 0, 1>>), PyStr(<<97>>)>>
    /\ partition_key \in PartitionKeys

\* C26: the branch of the maximum is never taken: whatever the PartitionKey
\* and the value, _get_effective_partition_key_string does not return the
\* maximum-exclusive sentinel 0xFF, its guard being on the PartitionKey
\* itself, and _get_epk_range_for_prefix_partition_key does not return the
\* range ("FF", "FF", true, false).
C26_MaximumNeverReturned ==
    /\ (KeyStringCalled \/ RangeCalled \/ PrefixRangeCalled)
       => /\ result.epk # IntResult(_MaximumExclusiveEffectivePartitionKey)
          /\ result.range # _Range(StrResult(FF), StrResult(FF), TRUE, FALSE)
    /\ partition_key.class # "_Infinity"

\* C26, witness: the range of a prefix that holds an _Infinity instance has
\* been returned by a MultiHash definition, and it starts at a hash
C26_Witness ==
    /\ PrefixRangeCalled /\ partition_key.kind = MULTI_HASH
    /\ pk_value.seq /\ \E i \in 1..Len(pk_value.items) : pk_value.items[i] = PyInfinity
    /\ result.status = "ok"
    /\ result.range.min.t = "str" /\ Len(result.range.min.v) >= DigestChars

\* the components the hashing writer has a branch for and
\* _to_hex_encoded_binary_string_v1 has none
IsRejectedByV1Encoding(component) ==
    component.t \in {"None", "dict", "NonePartitionKeyValue", "_Empty"}

\* C27 as stated: under Hash V1 a value with a component that is None, {},
\* NonePartitionKeyValue or an _Empty instance makes the computation of the
\* effective key raise TypeError in the binary encoding, after the hash has
\* been computed, and no effective key is returned.
C27_V1RejectsNullComponents ==
    (KeyOfListComputed /\ UsesHashV1
        /\ \E i \in 1..Len(pk_value.items) : IsRejectedByV1Encoding(pk_value.items[i]))
    => /\ result.status = "TypeError"
       /\ result.epk = NoResult
       /\ Len(result.hashed) = 1 /\ result.hashed[1].bits = 32
       /\ result.hashed[1] \in DOMAIN murmur

\* a component as the tagged value it stands for: None, {} and
\* NonePartitionKeyValue are Null, a number is its 8 bytes
Tagged(component) ==
    IF component.t \in {"None", "dict", "NonePartitionKeyValue"} THEN PyNone
    ELSE IF component.t \in {"int", "float"} THEN PyFloat(Reverse(PackDouble(component)))
    ELSE component

TaggedList(components) == [i \in 1..Len(components) |-> Tagged(components[i])]

\* the two lists differ as sequences of tagged values
ListsDiffer ==
    TaggedList(pk_value.items) # TaggedList(computed.pk_value.items)

\* C28: two lists of supported components that differ as sequences of tagged
\* values give different buffers under _write_for_hashing_v2.  (That the
\* 0x00 suffix of _write_for_hashing does not give this is the witness: a str
\* with a NUL character gives the buffer of a longer list.)
C28_V2BufferInjective ==
    (result.op = "_write_for_hashing_v2" /\ ListsDiffer)
    => result.ms_bytes # result.other_ms_bytes

\* C28, witness: the lists ["\x00"] and ["", Undefined] have different
\* buffers under _write_for_hashing_v2 and one buffer, 08 00 00, under
\* _write_for_hashing
C28_Witness ==
    /\ result.op = "_write_for_hashing_v2"
    /\ pk_value.items = <<PyStr(<<0>>)>>
    /\ computed.pk_value.items = <<PyStr(<<>>), PyUndefined>>
    /\ result.ms_bytes # result.other_ms_bytes
    /\ _write_for_hashing(PyStr(<<0>>))
           = _write_for_hashing(PyStr(<<>>)) \o _write_for_hashing(PyUndefined)

\* a PartitionKey has been built from a definition
BuiltFromDefinition ==
    /\ result.op = "_get_partition_key_from_partition_key_definition"
    /\ result.status = "ok"

\* C29: the PartitionKey built from a container definition has the paths,
\* the kind and the version of the definition where it has them, and kind
\* "Hash" and version 1 where it has not: not the version 2 of the
\* constructor, and not "MultiHash" for a list of paths without a kind.
C29_DefinitionDefaults ==
    BuiltFromDefinition
    => LET definition == result.definition
       IN  /\ definition.paths.given => partition_key.paths = definition.paths.value
           /\ partition_key.kind =
                  IF definition.kind.given THEN definition.kind.value ELSE HASH
           /\ partition_key.version =
                  IF definition.version.given THEN definition.version.value ELSE V1
           /\ partition_key.class = "PartitionKey"

\* C29, witness: the definition {"paths": ["/a", "/b"]} has given a Hash
\* partition key of version 1 over the two paths
C29_Witness ==
    /\ BuiltFromDefinition
    /\ result.definition.paths = Given(<<PathName(1), PathName(2)>>)
    /\ ~result.definition.kind.given /\ ~result.definition.version.given
    /\ partition_key.paths = <<PathName(1), PathName(2)>>
    /\ partition_key.kind = HASH
    /\ partition_key.version = V1

\* _get_match_headers has been called
MatchHeadersCalled == result.op = "_get_match_headers"

\* the match condition and the etag of the kwargs the call was made with
\* (None for a key that is not there)
given_match_condition == PopValue(result.kwargs, "source_match_condition")
given_etag == PopValue(result.kwargs, "source_etag")

\* C30: a call of _get_match_headers raises or returns a pair
\* (if_match, if_none_match) with at most one of the two not None;
\* IfNotModified and IfModified raise ValueError when the etag is missing or
\* empty; IfPresent returns ('*', None) and IfMissing (None, '*'); an etag
\* with no match condition raises ValueError; every other match condition
\* raises TypeError; and the key of the match condition is taken out of
\* kwargs in every case, the call raising or not.
C30_MatchHeaders ==
    MatchHeadersCalled
    => /\ result.status \in {"ok", "ValueError", "TypeError"}
       /\ result.status = "ok"
          => (result.if_match = PyNone \/ result.if_none_match = PyNone)
       /\ (given_match_condition \in {IfNotModified, IfModified} /\ Not(given_etag))
          => result.status = "ValueError"
       /\ given_match_condition = IfPresent
          => /\ result.status = "ok"
             /\ result.if_match = Star /\ result.if_none_match = PyNone
       /\ given_match_condition = IfMissing
          => /\ result.status = "ok"
             /\ result.if_match = PyNone /\ result.if_none_match = Star
       /\ (given_match_condition = PyNone /\ "source_etag" \in DOMAIN result.kwargs)
          => result.status = "ValueError"
       /\ given_match_condition \notin {IfNotModified, IfModified, IfPresent,
                                        IfMissing, PyNone}
          => result.status = "TypeError"
       /\ "source_match_condition" \notin DOMAIN kwargs

\* C30, witness: the call with MatchConditions.Unconditionally and an etag
\* has raised TypeError, and the match condition is gone from kwargs
C30_Witness ==
    /\ MatchHeadersCalled
    /\ "source_match_condition" \in DOMAIN result.kwargs
    /\ given_match_condition = Unconditionally
    /\ given_etag = PyStr(<<97>>)
    /\ result.status = "TypeError"
    /\ "source_match_condition" \notin DOMAIN kwargs
    /\ "source_etag" \in DOMAIN kwargs

====
